---- MODULE Spec2Model ----
(***************************************************************************)
(* Newsletter transmission and delivery tracking:                          *)
(*   functions/src/sendNewsletter.ts        manual "send now" callable     *)
(*   functions/src/scheduledNewsletters.ts  5-minute scheduler             *)
(*   functions/src/tracking.ts              open / click tracking, mailer  *)
(* Every await of the handlers is one step, so that invocations interleave *)
(* at the points where the code yields.  Every record-store call may throw.*)
(***************************************************************************)
EXTENDS Integers, Sequences, FiniteSets, TLC

\* ------------------------------------------------------------------ bounds
MaxTime == 1          \* clock values 0..MaxTime
MaxTrackCalls == 3    \* tracking requests accepted over a run

\* ------------------------------------------------------------------ universe
NIds == {"n1", "n2"}              \* ids a newsletter document may have
MissingId == "missing-id"         \* an id with no newsletter document
RequestIds == NIds \cup {MissingId}
MIds == {"m1"}                    \* concurrent manual-send invocations
SIds == {"s1"}                    \* concurrent scheduler runs
HIds == {"h1", "h2"}              \* concurrent tracking requests
RIds == {"r1", "r2"}              \* recipient ids a tracking request may carry
EventTypes == {"open", "click"}
\* req.query.url values of click requests, character by character:
\* "a/x", "a%2Fx" (still escaped) and "a%" (a malformed escape)
Urls == { <<"a", "/", "x">>, <<"a", "%", "2", "F", "x">>, <<"a", "%">> }
Absent == ""                      \* a query parameter that was not given
NoUrl == << >>                    \* the url parameter when it was not given
NoTime == -1                      \* an absent timestamp (null)

\* NewsletterStatus
Draft == "Draft"
Scheduled == "Scheduled"
Sent == "Sent"
Paused == "Paused"
Sending == "Sending"
NewsletterStatus == {Draft, Scheduled, Sent, Paused, Sending}

\* recipientGroups/{g}/recipients: the recipient documents of each group,
\* in snapshot order.  "gX" names no group document.
GroupDocs == {"gA", "gB", "gC"}
Members(g) ==
  IF g = "gA" THEN << [id |-> "r1", email |-> "a@x.com"],
                      [id |-> "r2", email |-> "b@x.com"] >>
  ELSE IF g = "gB" THEN << [id |-> "r3", email |-> "b@x.com"],
                           [id |-> "r4", email |-> "c@x.com"] >>
  ELSE IF g = "gC" THEN << [id |-> "r5", email |-> "B@x.com"] >>
  ELSE << >>

\* the recipientGroupIds a newsletter may carry
GroupLists == { << >>, <<"gX">>, <<"gA", "gB">> }

\* the stats block; an absent counter reads as 0
ZeroStats == [sent |-> 0, opened |-> 0, uniqueOpened |-> 0,
              clicked |-> 0, uniqueClicked |-> 0, bounced |-> 0]

VARIABLES
  newsletters,   \* the newsletters collection: [document id -> document]
  now,           \* the server clock
  man,           \* [MIds -> state of a sendNewsletterFunction invocation]
  sch,           \* [SIds -> state of a scheduledNewslettersFunction run]
  tracking,      \* the tracking collection: events per <<newsletterId, recipientId, eventType>>
  trk,           \* [HIds -> state of a trackOpenFunction / trackClickFunction request]
  calls,         \* history: tracking requests accepted, per <<newsletterId, recipientId, eventType>>
  faults,        \* history: whether a tracking request threw, per newsletterId
  audits,        \* history: EMAIL_OPENED / EMAIL_CLICKED audit events emitted
  disp,          \* state of a sendNewsletterEmails call
  res,           \* state of a fetchRecipients call
  ed,            \* [EIds -> state of a NewsletterEditor session]
  recipientGroups, \* the recipientGroups collection: [group id -> document and subcollection]
  add,           \* [AIds -> state of an addRecipient call]
  cmp            \* state of a wrapLinksWithTracking application

sendVars == <<now, man, sch>>
trackVars == <<tracking, trk, calls, faults, audits>>
mailVars == <<disp>>
resolveVars == <<res>>
editVars == <<ed>>
groupVars == <<recipientGroups, add>>
composeVars == <<cmp>>
vars == <<newsletters, now, man, sch, tracking, trk, calls, faults, audits, disp, res, ed,
          recipientGroups, add, cmp>>

\* ------------------------------------------------------------ fetchRecipients
RECURSIVE AddMembers(_, _)
AddMembers(all, snapshot) ==
  IF snapshot = << >> THEN all
  ELSE LET recipient == Head(snapshot)
           seen == \E k \in 1..Len(all) : all[k].email = recipient.email
       IN AddMembers(IF seen THEN all ELSE Append(all, recipient), Tail(snapshot))

\* a loop that ends at the first group that does not exist
RECURSIVE FetchFromUntilMissing(_, _)
FetchFromUntilMissing(all, groupIds) ==
  IF groupIds = << >> THEN all
  ELSE LET g == Head(groupIds)
       IN IF g \notin GroupDocs
            THEN all
            ELSE FetchFromUntilMissing(AddMembers(all, Members(g)), Tail(groupIds))

RECURSIVE FetchFrom(_, _)
FetchFrom(all, groupIds) ==
  IF groupIds = << >> THEN all
  ELSE LET g == Head(groupIds)
       IN IF g \notin GroupDocs
            THEN FetchFrom(all, Tail(groupIds))
            ELSE FetchFrom(AddMembers(all, Members(g)), Tail(groupIds))

fetchRecipients(groupIds) == FetchFrom(<< >>, groupIds)

MaxGroups == 3        \* longest list of group ids handed to fetchRecipients

\* the lists of group ids fetchRecipients is called with
GroupIdLists == UNION {[1..k -> GroupDocs \cup {"gX"}] : k \in 0..MaxGroups}

ResIdle == [pc |-> "idle", groupIds |-> << >>, out |-> << >>]

\* fetchRecipients(groupIds) is called
ResolveCall(groupIds) ==
  /\ res.pc = "idle"
  /\ res' = [ResIdle EXCEPT !.pc = "called", !.groupIds = groupIds]
  /\ UNCHANGED <<newsletters, sendVars, trackVars, mailVars, editVars, groupVars, composeVars>>

\* return allRecipients
ResolveReturn ==
  /\ res.pc = "called"
  /\ res' = [res EXCEPT !.pc = "done", !.out = fetchRecipients(res.groupIds)]
  /\ UNCHANGED <<newsletters, sendVars, trackVars, mailVars, editVars, groupVars, composeVars>>

\* -------------------------------------------------------- updateNewsletterStatus
\* an update that writes the four counters of the final stats by field path
\* and leaves the other fields of the stats object as they are
updateNewsletterStatusByPath(doc, st, withStats, s) ==
  [doc EXCEPT !.status = st,
              !.updatedAt = now,
              !.sentAt = IF st = Sent THEN now ELSE @,
              !.stats = IF withStats
                          THEN [@ EXCEPT !.sent = s.sent, !.opened = s.opened,
                                         !.clicked = s.clicked, !.bounced = s.bounced]
                          ELSE @]

\* db.collection('newsletters').doc(id).update({status, updatedAt [, sentAt] [, stats]})
updateNewsletterStatus(doc, st, withStats, s) ==
  [doc EXCEPT !.status = st,
              !.updatedAt = now,
              !.sentAt = IF st = Sent THEN now ELSE @,
              !.stats = IF withStats THEN s ELSE @]

\* a stats object with the two counts exchanged
FinalStatsSwapped(successCount, failureCount) ==
  [ZeroStats EXCEPT !.sent = failureCount, !.bounced = successCount]

\* the stats object both send paths write with Sent
FinalStats(successCount, failureCount) ==
  [ZeroStats EXCEPT !.sent = successCount, !.bounced = failureCount]

\* ------------------------------------------------------------ manual send
ManIdle == [pc |-> "idle", nid |-> MissingId, groupIds |-> << >>, recipients |-> 0,
            ok |-> 0, failed |-> 0, wroteSending |-> FALSE,
            err |-> "none", rolledBack |-> FALSE, before |-> << >>,
            configValid |-> TRUE, result |-> << >>,
            audit |-> [started |-> 0, bounced |-> 0, completed |-> 0, failed |-> 0]]

\* the object the callable returns; errors is the length of sendResult.errors
\* (the property is undefined when the list is empty)
SendOutcome(totalRecipients, successCount, failureCount) ==
  [success |-> (failureCount = 0),
   stats |-> [total |-> totalRecipients, sent |-> successCount, failed |-> failureCount],
   errors |-> failureCount]

\* the HttpsError code the caller receives for each failure
HttpsCode(e) ==
  IF e = "NotFound" THEN "not-found"
  ELSE IF e \in {"AlreadySent", "ConfigurationInvalid", "NoRecipients"} THEN "failed-precondition"
  ELSE "internal"

Throw(m, e) == man' = [man EXCEPT ![m].pc = "catch", ![m].err = e]

\* the callable is invoked with a newsletterId by an authenticated caller
ManualStart(m, n) ==
  /\ man[m].pc = "idle"
  /\ man' = [man EXCEPT ![m] = [ManIdle EXCEPT !.pc = "verify", !.nid = n,
                 !.before = IF n \in DOMAIN newsletters THEN <<newsletters[n]>> ELSE << >>]]
  /\ UNCHANGED <<newsletters, now, sch, trackVars, mailVars, resolveVars, editVars, groupVars, composeVars>>

\* verifyEmailConfiguration()
ManualVerify(m) ==
  /\ man[m].pc = "verify"
  /\ \E emailConfigValid \in BOOLEAN :
       IF emailConfigValid
         THEN man' = [man EXCEPT ![m].pc = "fetch"]
         ELSE man' = [man EXCEPT ![m].pc = "catch", ![m].err = "ConfigurationInvalid",
                                 ![m].configValid = FALSE]
  /\ UNCHANGED <<newsletters, now, sch, trackVars, mailVars, resolveVars, editVars, groupVars, composeVars>>

\* newsletters.doc(id).get(), exists check, already-sent check
ManualFetch(m) ==
  /\ man[m].pc = "fetch"
  /\ \E storeOk \in BOOLEAN :
       IF ~storeOk THEN Throw(m, "Internal")
       ELSE IF man[m].nid \notin DOMAIN newsletters THEN Throw(m, "NotFound")
       ELSE IF newsletters[man[m].nid].status = Sent THEN Throw(m, "AlreadySent")
       ELSE man' = [man EXCEPT ![m].pc = "recipients",
                   ![m].groupIds = newsletters[man[m].nid].recipientGroupIds]
  /\ UNCHANGED <<newsletters, now, sch, trackVars, mailVars, resolveVars, editVars, groupVars, composeVars>>

\* fetchRecipients(newsletter.recipientGroupIds), empty check
ManualRecipients(m) ==
  /\ man[m].pc = "recipients"
  /\ \E storeOk \in BOOLEAN :
       LET recipients == fetchRecipients(man[m].groupIds)
       IN IF ~storeOk THEN Throw(m, "Internal")
          ELSE IF Len(recipients) = 0 THEN Throw(m, "NoRecipients")
          ELSE man' = [man EXCEPT ![m].pc = "sending",
                                  ![m].recipients = Len(recipients)]
  /\ UNCHANGED <<newsletters, now, sch, trackVars, mailVars, resolveVars, editVars, groupVars, composeVars>>

\* updateNewsletterStatus(id, SENDING); logNewsletterSendStarted
ManualMarkSending(m) ==
  /\ man[m].pc = "sending"
  /\ \E storeOk \in BOOLEAN :
       IF storeOk
         THEN /\ newsletters' = [newsletters EXCEPT ![man[m].nid] =
                    updateNewsletterStatus(@, Sending, FALSE, ZeroStats)]
              /\ man' = [man EXCEPT ![m].pc = "dispatch", ![m].wroteSending = TRUE,
                                      ![m].audit.started = @ + 1]
         ELSE /\ Throw(m, "Internal")
              /\ UNCHANGED newsletters
  /\ UNCHANGED <<now, sch, trackVars, mailVars, resolveVars, editVars, groupVars, composeVars>>

\* a dispatch that rejects when every recipient failed
ManualDispatchRejects(m) ==
  /\ man[m].pc = "dispatch"
  /\ \E failureCount \in 0..man[m].recipients :
       IF failureCount = man[m].recipients
         THEN Throw(m, "Internal")
         ELSE man' = [man EXCEPT ![m].pc = "final",
                                 ![m].ok = man[m].recipients - failureCount,
                                 ![m].failed = failureCount]
  /\ UNCHANGED <<newsletters, now, sch, trackVars, mailVars, resolveVars, editVars, groupVars, composeVars>>

\* sendNewsletterEmails(newsletter, recipients): never throws, any recipient
\* may fail; logEmailBounced for every entry of sendResult.errors
ManualDispatch(m) ==
  /\ man[m].pc = "dispatch"
  /\ \E failureCount \in 0..man[m].recipients :
       man' = [man EXCEPT ![m].pc = "final",
                          ![m].ok = man[m].recipients - failureCount,
                          ![m].failed = failureCount,
                          ![m].audit.bounced = failureCount]
  /\ UNCHANGED <<newsletters, now, sch, trackVars, mailVars, resolveVars, editVars, groupVars, composeVars>>

\* updateNewsletterStatus(id, SENT, {sent, opened: 0, clicked: 0, bounced});
\* the audit call; the result returned to the caller
ManualMarkSent(m) ==
  /\ man[m].pc = "final"
  /\ \E storeOk \in BOOLEAN :
       IF storeOk
         THEN /\ newsletters' = [newsletters EXCEPT ![man[m].nid] =
                    updateNewsletterStatus(@, Sent, TRUE,
                                           FinalStats(man[m].ok, man[m].failed))]
              /\ man' = [man EXCEPT ![m].pc = "done",
                           ![m].audit.completed = @ + 1,
                           ![m].result = <<SendOutcome(man[m].recipients, man[m].ok,
                                                       man[m].failed)>>]
         ELSE /\ Throw(m, "Internal")
              /\ UNCHANGED newsletters
  /\ UNCHANGED <<now, sch, trackVars, mailVars, resolveVars, editVars, groupVars, composeVars>>

\* a rollback that restores the other pre-send status
ManualRollbackStatusScheduled(m) == Scheduled

\* the status the catch block of the manual path writes
ManualRollbackStatus(m) == Draft

\* catch: logNewsletterSendFailed; try { updateNewsletterStatus(id, DRAFT) }
\* catch { log }; then rethrow.  update() of a missing document throws.
ManualRollback(m) ==
  /\ man[m].pc = "catch"
  /\ \E storeOk \in BOOLEAN :
       IF storeOk /\ man[m].nid \in DOMAIN newsletters
         THEN /\ newsletters' = [newsletters EXCEPT ![man[m].nid] =
                    updateNewsletterStatus(@, ManualRollbackStatus(m), FALSE, ZeroStats)]
              /\ man' = [man EXCEPT ![m].pc = "done", ![m].rolledBack = TRUE,
                                      ![m].audit.failed = @ + 1]
         ELSE /\ UNCHANGED newsletters
              /\ man' = [man EXCEPT ![m].pc = "done", ![m].audit.failed = @ + 1]
  /\ UNCHANGED <<now, sch, trackVars, mailVars, resolveVars, editVars, groupVars, composeVars>>

\* the invocation has answered its caller
ManualReturn(m) ==
  /\ man[m].pc = "done"
  /\ man' = [man EXCEPT ![m] = ManIdle]
  /\ UNCHANGED <<newsletters, now, sch, trackVars, mailVars, resolveVars, editVars, groupVars, composeVars>>

\* ------------------------------------------------------------ scheduler
SchIdle == [pc |-> "idle", now |-> 0, due |-> << >>, i |-> 0, recipients |-> 0,
            ok |-> 0, failed |-> 0, successCount |-> 0, errorCount |-> 0,
            wroteSending |-> FALSE, outcomes |-> << >>, summary |-> << >>,
            configValid |-> TRUE]

IdRank(n) == IF n = "n1" THEN 1 ELSE 2

\* a query that leaves out the scheduledAt condition
IsDueWhenScheduled(doc, t) == doc.status = Scheduled

\* where('status', '==', SCHEDULED).where('scheduledAt', '<=', now)
IsDue(doc, t) == doc.status = Scheduled /\ doc.scheduledAt <= t

\* the query snapshot: the due documents in the order of the query
\* (scheduledAt, then document id), each with the data read by the query
RECURSIVE DueDocs(_, _)
DueDocs(ids, t) ==
  IF ids = {} THEN << >>
  ELSE LET first == CHOOSE n \in ids : \A o \in ids :
                      \/ newsletters[n].scheduledAt < newsletters[o].scheduledAt
                      \/ /\ newsletters[n].scheduledAt = newsletters[o].scheduledAt
                         /\ IdRank(n) <= IdRank(o)
       IN << [id |-> first, groupIds |-> newsletters[first].recipientGroupIds,
              status |-> newsletters[first].status,
              scheduledAt |-> newsletters[first].scheduledAt] >>
            \o DueDocs(ids \ {first}, t)

DueNewsletters(t) ==
  DueDocs({n \in DOMAIN newsletters : IsDue(newsletters[n], t)}, t)

\* logScheduledCheckRun({newslettersFound, newslettersSent, errors})
Summary(found, sent, errors) ==
  << [newslettersFound |-> found, newslettersSent |-> sent, errors |-> errors] >>

\* the next document of the for loop, or the summary after the last one
NextItem(r) ==
  IF r.i < Len(r.due)
    THEN [r EXCEPT !.pc = "recipients", !.i = r.i + 1, !.recipients = 0,
                   !.ok = 0, !.failed = 0, !.wroteSending = FALSE]
    ELSE [r EXCEPT !.pc = "summary"]

\* the inner catch: errorCount++, then the rollback write
ItemThrow(r) == [r EXCEPT !.pc = "catch", !.errorCount = r.errorCount + 1]

\* the outer catch: logScheduledCheckRun({0, successCount, errorCount + 1})
RunThrow(r) ==
  [r EXCEPT !.pc = "done",
            !.summary = r.summary \o Summary(0, r.successCount, r.errorCount + 1)]

\* the pub/sub schedule fires: const now = Timestamp.now().  configValid is
\* whether the relay accepts the GMAIL_USER / GMAIL_APP_PASSWORD of the
\* process; the run never asks
SchedStart(s) ==
  /\ sch[s].pc = "idle"
  /\ \E configValid \in BOOLEAN :
       sch' = [sch EXCEPT ![s] = [SchIdle EXCEPT !.pc = "query", !.now = now,
                                                 !.configValid = configValid]]
  /\ UNCHANGED <<newsletters, now, man, trackVars, mailVars, resolveVars, editVars, groupVars, composeVars>>

\* the query for due newsletters, the empty case
SchedQuery(s) ==
  /\ sch[s].pc = "query"
  /\ \E storeOk \in BOOLEAN :
       LET due == DueNewsletters(sch[s].now)
       IN IF ~storeOk THEN sch' = [sch EXCEPT ![s] = RunThrow(@)]
          ELSE IF Len(due) = 0
            THEN sch' = [sch EXCEPT ![s].pc = "done",
                                    ![s].summary = Summary(0, 0, 0)]
            ELSE sch' = [sch EXCEPT ![s] = NextItem([@ EXCEPT !.due = due])]
  /\ UNCHANGED <<newsletters, now, man, trackVars, mailVars, resolveVars, editVars, groupVars, composeVars>>

\* fetchRecipients(newsletter.recipientGroupIds); no recipients: continue
SchedRecipients(s) ==
  /\ sch[s].pc = "recipients"
  /\ \E storeOk \in BOOLEAN :
       LET recipients == fetchRecipients(sch[s].due[sch[s].i].groupIds)
       IN IF ~storeOk THEN sch' = [sch EXCEPT ![s] = ItemThrow(@)]
          ELSE IF Len(recipients) = 0
            THEN sch' = [sch EXCEPT ![s] =
                    NextItem([@ EXCEPT !.outcomes = Append(@, "skipped")])]
          ELSE sch' = [sch EXCEPT ![s].pc = "sending",
                                  ![s].recipients = Len(recipients)]
  /\ UNCHANGED <<newsletters, now, man, trackVars, mailVars, resolveVars, editVars, groupVars, composeVars>>

\* a Sending write made only while the stored status is still Scheduled
SchedMarkSendingIfScheduled(s) ==
  /\ sch[s].pc = "sending"
  /\ \E storeOk \in BOOLEAN :
       IF storeOk /\ newsletters[sch[s].due[sch[s].i].id].status = Scheduled
         THEN /\ newsletters' = [newsletters EXCEPT ![sch[s].due[sch[s].i].id] =
                    updateNewsletterStatus(@, Sending, FALSE, ZeroStats)]
              /\ sch' = [sch EXCEPT ![s].pc = "dispatch", ![s].wroteSending = TRUE]
         ELSE /\ sch' = [sch EXCEPT ![s] = ItemThrow(@)]
              /\ UNCHANGED newsletters
  /\ UNCHANGED <<now, man, trackVars, mailVars, resolveVars, editVars, groupVars, composeVars>>

\* doc.ref.update({status: SENDING, updatedAt})
SchedMarkSending(s) ==
  /\ sch[s].pc = "sending"
  /\ \E storeOk \in BOOLEAN :
       IF storeOk
         THEN /\ newsletters' = [newsletters EXCEPT ![sch[s].due[sch[s].i].id] =
                    updateNewsletterStatus(@, Sending, FALSE, ZeroStats)]
              /\ sch' = [sch EXCEPT ![s].pc = "dispatch", ![s].wroteSending = TRUE]
         ELSE /\ sch' = [sch EXCEPT ![s] = ItemThrow(@)]
              /\ UNCHANGED newsletters
  /\ UNCHANGED <<now, man, trackVars, mailVars, resolveVars, editVars, groupVars, composeVars>>

\* sendNewsletterEmails(newsletter, recipients): never throws; with an
\* invalid relay configuration every sendMail rejects
SchedDispatch(s) ==
  /\ sch[s].pc = "dispatch"
  /\ \E failureCount \in 0..sch[s].recipients :
       /\ ~sch[s].configValid => failureCount = sch[s].recipients
       /\ sch' = [sch EXCEPT ![s].pc = "final",
                          ![s].ok = sch[s].recipients - failureCount,
                          ![s].failed = failureCount]
  /\ UNCHANGED <<newsletters, now, man, trackVars, mailVars, resolveVars, editVars, groupVars, composeVars>>

\* doc.ref.update({status: SENT, sentAt, updatedAt, stats}); successCount++
SchedMarkSent(s) ==
  /\ sch[s].pc = "final"
  /\ \E storeOk \in BOOLEAN :
       IF storeOk
         THEN /\ newsletters' = [newsletters EXCEPT ![sch[s].due[sch[s].i].id] =
                    updateNewsletterStatus(@, Sent, TRUE,
                                           FinalStats(sch[s].ok, sch[s].failed))]
              /\ sch' = [sch EXCEPT ![s] =
                    NextItem([@ EXCEPT !.successCount = @ + 1,
                                       !.outcomes = Append(@, "sent")])]
         ELSE /\ sch' = [sch EXCEPT ![s] = ItemThrow(@)]
              /\ UNCHANGED newsletters
  /\ UNCHANGED <<now, man, trackVars, mailVars, resolveVars, editVars, groupVars, composeVars>>

\* a rollback copied from the manual path
SchedRollbackStatusDraft(s) == Draft

\* the status the catch block of the scheduler path writes
SchedRollbackStatus(s) == Scheduled

\* inner catch: doc.ref.update({status: SCHEDULED, updatedAt}), not guarded:
\* when it throws, the outer catch ends the run
SchedRollback(s) ==
  /\ sch[s].pc = "catch"
  /\ \E storeOk \in BOOLEAN :
       IF storeOk
         THEN /\ newsletters' = [newsletters EXCEPT ![sch[s].due[sch[s].i].id] =
                    updateNewsletterStatus(@, SchedRollbackStatus(s), FALSE, ZeroStats)]
              /\ sch' = [sch EXCEPT ![s] =
                    NextItem([@ EXCEPT !.outcomes = Append(@, "rolledBack")])]
         ELSE /\ sch' = [sch EXCEPT ![s] =
                    RunThrow([@ EXCEPT !.outcomes = Append(@, "rollbackThrew")])]
              /\ UNCHANGED newsletters
  /\ UNCHANGED <<now, man, trackVars, mailVars, resolveVars, editVars, groupVars, composeVars>>

\* logScheduledCheckRun({found: size, sent: successCount, errors: errorCount})
SchedSummary(s) ==
  /\ sch[s].pc = "summary"
  /\ sch' = [sch EXCEPT ![s].pc = "done",
                        ![s].summary = Summary(Len(sch[s].due), sch[s].successCount,
                                               sch[s].errorCount)]
  /\ UNCHANGED <<newsletters, now, man, trackVars, mailVars, resolveVars, editVars, groupVars, composeVars>>

\* the run has returned
SchedReturn(s) ==
  /\ sch[s].pc = "done"
  /\ sch' = [sch EXCEPT ![s] = SchIdle]
  /\ UNCHANGED <<newsletters, now, man, trackVars, mailVars, resolveVars, editVars, groupVars, composeVars>>

\* ------------------------------------------------------------ tracking
TrkIdle == [pc |-> "idle", kind |-> "open", nid |-> Absent, rid |-> Absent,
            url |-> NoUrl, isUnique |-> FALSE, threw |-> FALSE, resp |-> << >>]

EventKeys == (NIds \cup {MissingId}) \X RIds \X EventTypes

\* res.set(...); res.send(TRACKING_PIXEL): the default status; the catch path
\* sets no Cache-Control
PixelResponse(threw) ==
  << [status |-> 200, contentType |-> "image/gif", body |-> "TRACKING_PIXEL",
      cacheControl |-> IF threw THEN Absent ELSE "no-cache, no-store, must-revalidate",
      location |-> NoUrl] >>

\* res.status(400).send('Missing parameters')
BadRequest ==
  << [status |-> 400, contentType |-> "text/html", body |-> "Missing parameters",
      cacheControl |-> Absent, location |-> NoUrl] >>

\* the escape sequences of the model's alphabet: %2F and %25
Escapes == [p \in {<<"2", "F">>, <<"2", "5">>} |->
              IF p = <<"2", "F">> THEN "/" ELSE "%"]

\* decodeURIComponent: every %XX is replaced by its character; a "%" that
\* does not start an escape makes it throw URIError (ok = FALSE)
RECURSIVE decodeURIComponent(_)
decodeURIComponent(u) ==
  IF u = << >> THEN [ok |-> TRUE, value |-> << >>]
  ELSE IF Head(u) # "%"
    THEN LET rest == decodeURIComponent(Tail(u))
         IN [ok |-> rest.ok, value |-> IF rest.ok THEN <<Head(u)>> \o rest.value ELSE << >>]
  ELSE IF Len(u) >= 3 /\ <<u[2], u[3]>> \in DOMAIN Escapes
    THEN LET rest == decodeURIComponent(SubSeq(u, 4, Len(u)))
         IN [ok |-> rest.ok,
             value |-> IF rest.ok THEN <<Escapes[<<u[2], u[3]>>]>> \o rest.value ELSE << >>]
  ELSE [ok |-> FALSE, value |-> << >>]

\* res.redirect(302, decodeURIComponent(String(originalUrl))): when the
\* argument throws, res.redirect is never called and nothing is answered
Redirect(u) ==
  LET decoded == decodeURIComponent(u)
  IN IF decoded.ok
       THEN << [status |-> 302, contentType |-> "text/plain", body |-> "Found",
                cacheControl |-> Absent, location |-> decoded.value] >>
       ELSE << >>

\* what the handler answers at the end of its try block (threw = FALSE) and
\* in its catch block (threw = TRUE)
Answer(r, threw) == IF r.kind = "open" THEN PixelResponse(threw) ELSE Redirect(r.url)

\* a uniqueness query that never finds the prior event
SnapshotEmptyAlways(events, n, r, kind) == TRUE

\* a uniqueness query without the eventType filter
SnapshotEmptyAnyType(events, n, r, kind) == \A k \in EventTypes : events[<<n, r, k>>] = 0

\* .where(newsletterId).where(recipientId).where('eventType', '==', kind).limit(1): snapshot.empty
SnapshotEmpty(events, n, r, kind) == events[<<n, r, kind>>] = 0

\* a plain field write in place of the increment transform
IncrementOverwrites(cur, d) == d

\* FieldValue.increment(d)
Increment(cur, d) == cur + d

\* an update that writes a whole stats object holding the tracking counters
TrackingUpdateWholeStats(stats, kind, isUnique) ==
  IF kind = "open"
    THEN [ZeroStats EXCEPT !.opened = stats.opened + 1,
                           !.uniqueOpened = stats.uniqueOpened + (IF isUnique THEN 1 ELSE 0)]
    ELSE [ZeroStats EXCEPT !.clicked = stats.clicked + 1,
                           !.uniqueClicked = stats.uniqueClicked + (IF isUnique THEN 1 ELSE 0)]

\* update({'stats.opened': increment(1) [, 'stats.uniqueOpened': increment(1)]}),
\* and the same on stats.clicked / stats.uniqueClicked for clicks
TrackingUpdate(stats, kind, isUnique) ==
  IF kind = "open"
    THEN [stats EXCEPT !.opened = Increment(@, 1),
                       !.uniqueOpened = IF isUnique THEN Increment(@, 1) ELSE @]
    ELSE [stats EXCEPT !.clicked = Increment(@, 1),
                       !.uniqueClicked = IF isUnique THEN Increment(@, 1) ELSE @]

TotalCalls == LET RECURSIVE Sum(_)
                  Sum(K) == IF K = {} THEN 0
                            ELSE LET k == CHOOSE x \in K : TRUE
                                 IN calls[k] + Sum(K \ {k})
              IN Sum(EventKeys)

\* a catch block that reports the failure to the mail client
TrackCatchReports(h) ==
  /\ trk' = [trk EXCEPT ![h].pc = "done", ![h].threw = TRUE,
                        ![h].resp = << [status |-> 500, contentType |-> "text/html",
                                        body |-> "Internal Server Error",
                                        cacheControl |-> Absent, location |-> NoUrl] >>]
  /\ faults' = [faults EXCEPT ![trk[h].nid] = TRUE]

\* the catch block: log, then the same answer
TrackCatch(h) ==
  /\ trk' = [trk EXCEPT ![h].pc = "done", ![h].threw = TRUE,
                        ![h].resp = Answer(trk[h], TRUE)]
  /\ faults' = [faults EXCEPT ![trk[h].nid] = TRUE]

\* a parameter check that writes an audit event for the rejected request
TrackOpenRequestAudited(h, n, r) ==
  /\ trk[h].pc = "idle"
  /\ TotalCalls < MaxTrackCalls
  /\ IF n = Absent \/ r = Absent
       THEN /\ trk' = [trk EXCEPT ![h] = [TrkIdle EXCEPT !.pc = "done", !.kind = "open",
                           !.nid = n, !.rid = r, !.resp = BadRequest]]
            /\ audits' = audits + 1
            /\ UNCHANGED calls
       ELSE /\ trk' = [trk EXCEPT ![h] = [TrkIdle EXCEPT !.pc = "query", !.kind = "open",
                           !.nid = n, !.rid = r]]
            /\ calls' = [calls EXCEPT ![<<n, r, "open">>] = @ + 1]
            /\ UNCHANGED audits
  /\ UNCHANGED <<newsletters, sendVars, mailVars, resolveVars, editVars, tracking, faults, groupVars, composeVars>>

\* GET /trackOpen?nid=&rid=  : the parameter check
TrackOpenRequest(h, n, r) ==
  /\ trk[h].pc = "idle"
  /\ TotalCalls < MaxTrackCalls
  /\ IF n = Absent \/ r = Absent
       THEN /\ trk' = [trk EXCEPT ![h] = [TrkIdle EXCEPT !.pc = "done", !.kind = "open",
                           !.nid = n, !.rid = r, !.resp = BadRequest]]
            /\ UNCHANGED calls
       ELSE /\ trk' = [trk EXCEPT ![h] = [TrkIdle EXCEPT !.pc = "query", !.kind = "open",
                           !.nid = n, !.rid = r]]
            /\ calls' = [calls EXCEPT ![<<n, r, "open">>] = @ + 1]
  /\ UNCHANGED <<newsletters, sendVars, mailVars, resolveVars, editVars, tracking, faults, audits, groupVars, composeVars>>

\* GET /trackClick?nid=&rid=&url=  : the parameter check, then
\* const decodedUrl = decodeURIComponent(String(originalUrl)) inside the try.
\* When that throws, the catch block evaluates the same expression and throws
\* again: the handler ends without an answer.
TrackClickRequest(h, n, r, u) ==
  /\ trk[h].pc = "idle"
  /\ TotalCalls < MaxTrackCalls
  /\ IF n = Absent \/ r = Absent \/ u = NoUrl
       THEN /\ trk' = [trk EXCEPT ![h] = [TrkIdle EXCEPT !.pc = "done", !.kind = "click",
                           !.nid = n, !.rid = r, !.url = u, !.resp = BadRequest]]
            /\ UNCHANGED <<calls, faults>>
       ELSE IF decodeURIComponent(u).ok
       THEN /\ trk' = [trk EXCEPT ![h] = [TrkIdle EXCEPT !.pc = "query", !.kind = "click",
                           !.nid = n, !.rid = r, !.url = u]]
            /\ calls' = [calls EXCEPT ![<<n, r, "click">>] = @ + 1]
            /\ UNCHANGED faults
       ELSE /\ trk' = [trk EXCEPT ![h] = [TrkIdle EXCEPT !.pc = "done", !.kind = "click",
                           !.nid = n, !.rid = r, !.url = u, !.threw = TRUE,
                           !.resp = Redirect(u)]]
            /\ calls' = [calls EXCEPT ![<<n, r, "click">>] = @ + 1]
            /\ faults' = [faults EXCEPT ![n] = TRUE]
  /\ UNCHANGED <<newsletters, sendVars, mailVars, resolveVars, editVars, tracking, audits, groupVars, composeVars>>

\* const snapshot = await q.get(); const isUnique = snapshot.empty
TrackQuery(h) ==
  /\ trk[h].pc = "query"
  /\ \E storeOk \in BOOLEAN :
       IF storeOk
         THEN /\ trk' = [trk EXCEPT ![h].pc = "add",
                   ![h].isUnique = SnapshotEmpty(tracking, trk[h].nid, trk[h].rid, trk[h].kind)]
              /\ UNCHANGED faults
         ELSE TrackCatch(h)
  /\ UNCHANGED <<newsletters, sendVars, mailVars, resolveVars, editVars, tracking, calls, audits, groupVars, composeVars>>

\* await trackingRef.add({...})
TrackAdd(h) ==
  /\ trk[h].pc = "add"
  /\ \E storeOk \in BOOLEAN :
       IF storeOk
         THEN /\ tracking' = [tracking EXCEPT ![<<trk[h].nid, trk[h].rid, trk[h].kind>>] = @ + 1]
              /\ trk' = [trk EXCEPT ![h].pc = "update"]
              /\ UNCHANGED faults
         ELSE /\ TrackCatch(h)
              /\ UNCHANGED tracking
  /\ UNCHANGED <<newsletters, sendVars, mailVars, resolveVars, editVars, calls, audits, groupVars, composeVars>>

\* an update that checks uniqueness again, in one transaction with the increment
TrackUpdateTransactional(h) ==
  /\ trk[h].pc = "update"
  /\ \E storeOk \in BOOLEAN :
       IF storeOk /\ trk[h].nid \in DOMAIN newsletters
         THEN /\ newsletters' = [newsletters EXCEPT ![trk[h].nid].stats =
                    TrackingUpdate(@, trk[h].kind,
                       tracking[<<trk[h].nid, trk[h].rid, trk[h].kind>>] <= 1
                       /\ \A o \in HIds \ {h} :
                            ~(trk[o].pc = "done" /\ trk[o].isUnique /\ ~trk[o].threw
                              /\ trk[o].nid = trk[h].nid /\ trk[o].rid = trk[h].rid
                              /\ trk[o].kind = trk[h].kind))]
              /\ audits' = audits + 1
              /\ trk' = [trk EXCEPT ![h].pc = "done", ![h].resp = Answer(trk[h], FALSE)]
              /\ UNCHANGED faults
         ELSE /\ TrackCatch(h)
              /\ UNCHANGED <<newsletters, audits>>
  /\ UNCHANGED <<sendVars, mailVars, resolveVars, editVars, tracking, calls, groupVars, composeVars>>

\* await newsletters.doc(nid).update(updateData); the audit call; the answer.
\* update() of a document that does not exist throws.
TrackUpdate(h) ==
  /\ trk[h].pc = "update"
  /\ \E storeOk \in BOOLEAN :
       IF storeOk /\ trk[h].nid \in DOMAIN newsletters
         THEN /\ newsletters' = [newsletters EXCEPT ![trk[h].nid].stats =
                    TrackingUpdate(@, trk[h].kind, trk[h].isUnique)]
              /\ audits' = audits + 1
              /\ trk' = [trk EXCEPT ![h].pc = "done", ![h].resp = Answer(trk[h], FALSE)]
              /\ UNCHANGED faults
         ELSE /\ TrackCatch(h)
              /\ UNCHANGED <<newsletters, audits>>
  /\ UNCHANGED <<sendVars, mailVars, resolveVars, editVars, tracking, calls, groupVars, composeVars>>

\* the response has been sent
TrackReturn(h) ==
  /\ trk[h].pc = "done"
  /\ trk' = [trk EXCEPT ![h] = TrkIdle]
  /\ UNCHANGED <<newsletters, sendVars, mailVars, resolveVars, editVars, tracking, calls, faults, audits, groupVars, composeVars>>

\* ------------------------------------------------------------ sendNewsletterEmails
BATCH_SIZE == 10      \* emails sent at a time
maxConnections == 5   \* transporter pool: max concurrent connections
MaxRecipients == 25   \* longest recipient list handed to the dispatcher
MaxAnyPattern == 3    \* lists up to this length fail in every pattern

\* the recipient list of a call: n distinct recipients, named by position
Recipients(n) == [k \in 1..n |-> k]

\* the recipients whose sendSingleEmail fails, over the calls of the model:
\* nobody, any single recipient, everybody; any subset of a short list
FailurePatterns(n) ==
  {{}, 1..n} \cup {{k} : k \in 1..n}
  \cup (IF n <= MaxAnyPattern THEN SUBSET (1..n) ELSE {})

DispIdle == [pc |-> "idle", recipients |-> << >>, failing |-> {}, i |-> 0,
             batch |-> << >>, pending |-> {},
             results |-> [success |-> TRUE, totalRecipients |-> 0, successCount |-> 0,
                          failureCount |-> 0, errors |-> << >>],
             attempts |-> << >>, batches |-> << >>, delays |-> 0]

\* sendSingleEmail: the whole body is inside try/catch, so it resolves to
\* {success: true} or {success: false, error: error.message} and never rejects
sendSingleEmail(recipient, failing) ==
  IF recipient \in failing THEN [success |-> FALSE, error |-> "relay error"]
  ELSE [success |-> TRUE, error |-> Absent]

\* a slice that takes the rest of the list
BatchSliceRest(recipients, i) == SubSeq(recipients, i + 1, Len(recipients))

\* recipients.slice(i, i + BATCH_SIZE), i counted from 0
BatchSlice(recipients, i) ==
  SubSeq(recipients, i + 1, IF i + BATCH_SIZE < Len(recipients) THEN i + BATCH_SIZE
                            ELSE Len(recipients))

\* an aggregation that stops at the first failed result
RECURSIVE AggregateUntilFailure(_, _, _)
AggregateUntilFailure(results, batch, batchResults) ==
  IF batchResults = << >> THEN results
  ELSE IF Head(batchResults).success
    THEN AggregateUntilFailure([results EXCEPT !.successCount = @ + 1],
                               Tail(batch), Tail(batchResults))
  ELSE [results EXCEPT !.failureCount = @ + 1,
          !.errors = Append(@, [recipientEmail |-> Head(batch),
                                error |-> Head(batchResults).error])]

\* batchResults.forEach((result, index) => ...): count the result, and push
\* {recipientEmail: batch[index].email, error: result.error || 'Unknown error'}
RECURSIVE Aggregate(_, _, _)
Aggregate(results, batch, batchResults) ==
  IF batchResults = << >> THEN results
  ELSE IF Head(batchResults).success
    THEN Aggregate([results EXCEPT !.successCount = @ + 1],
                   Tail(batch), Tail(batchResults))
  ELSE Aggregate([results EXCEPT !.failureCount = @ + 1,
                    !.errors = Append(@, [recipientEmail |-> Head(batch),
                                          error |-> IF Head(batchResults).error = Absent
                                                      THEN "Unknown error"
                                                      ELSE Head(batchResults).error])],
                 Tail(batch), Tail(batchResults))

\* a delay after every batch
NeedsDelayAlways(i, n) == TRUE

\* if (i + BATCH_SIZE < recipients.length): a delay except after the last batch
NeedsDelay(i, n) == i + BATCH_SIZE < n

\* a result whose success flag is never recomputed
FinalResultKeepsFlag(results) == results

\* results.success = results.failureCount === 0
FinalResult(results) == [results EXCEPT !.success = (results.failureCount = 0)]

\* sendNewsletterEmails(newsletter, recipients): the results object
DispatchCall(n, failing) ==
  /\ disp.pc = "idle"
  /\ disp' = [DispIdle EXCEPT !.pc = "loop", !.recipients = Recipients(n),
                !.failing = failing, !.results.totalRecipients = n,
                !.attempts = [k \in 1..n |-> 0]]
  /\ UNCHANGED <<newsletters, sendVars, trackVars, resolveVars, editVars, groupVars, composeVars>>

\* for (...; i < recipients.length; ...): batch = recipients.slice(...);
\* batch.map(sendSingleEmail) starts every attempt of the batch
DispatchBatch ==
  /\ disp.pc = "loop"
  /\ disp.i < Len(disp.recipients)
  /\ LET batch == BatchSlice(disp.recipients, disp.i)
     IN disp' = [disp EXCEPT !.pc = "await", !.batch = batch,
                   !.pending = 1..Len(batch),
                   !.attempts = [k \in DOMAIN disp.attempts |->
                                   IF \E j \in 1..Len(batch) : batch[j] = k
                                     THEN disp.attempts[k] + 1 ELSE disp.attempts[k]],
                   !.batches = Append(@, Len(batch))]
  /\ UNCHANGED <<newsletters, sendVars, trackVars, resolveVars, editVars, groupVars, composeVars>>

\* one sendSingleEmail promise of the batch resolves
AttemptSettles(k) ==
  /\ disp.pc = "await"
  /\ k \in disp.pending
  /\ disp' = [disp EXCEPT !.pending = @ \ {k}]
  /\ UNCHANGED <<newsletters, sendVars, trackVars, resolveVars, editVars, groupVars, composeVars>>

\* await Promise.all(batchPromises) returns; the forEach; the delay condition
DispatchAggregate ==
  /\ disp.pc = "await"
  /\ disp.pending = {}
  /\ LET batchResults == [j \in 1..Len(disp.batch) |->
                            sendSingleEmail(disp.batch[j], disp.failing)]
         delay == NeedsDelay(disp.i, Len(disp.recipients))
     IN disp' = [disp EXCEPT !.results = Aggregate(@, disp.batch, batchResults),
                   !.pc = IF delay THEN "delay" ELSE "loop",
                   !.delays = IF delay THEN @ + 1 ELSE @,
                   !.i = IF delay THEN @ ELSE @ + BATCH_SIZE]
  /\ UNCHANGED <<newsletters, sendVars, trackVars, resolveVars, editVars, groupVars, composeVars>>

\* await new Promise((resolve) => setTimeout(resolve, BATCH_DELAY)); i += BATCH_SIZE
DispatchDelayOver ==
  /\ disp.pc = "delay"
  /\ disp' = [disp EXCEPT !.pc = "loop", !.i = @ + BATCH_SIZE]
  /\ UNCHANGED <<newsletters, sendVars, trackVars, resolveVars, editVars, groupVars, composeVars>>

\* the loop ends: results.success is set and results is returned
DispatchFinish ==
  /\ disp.pc = "loop"
  /\ disp.i >= Len(disp.recipients)
  /\ disp' = [disp EXCEPT !.pc = "done", !.results = FinalResult(@)]
  /\ UNCHANGED <<newsletters, sendVars, trackVars, resolveVars, editVars, groupVars, composeVars>>

\* --------------------------------------------------------------- addRecipient
AIds == {"a1", "a2"}  \* addRecipient calls in progress
MaxAdds == 3          \* recipient documents added to one group over a run

\* recipientCount of a group document; recipients is the number of documents
\* in its recipients subcollection
AddIdle == [pc |-> "idle", gid |-> Absent, length |-> 0, threw |-> FALSE]

\* an await of addRecipient that rejects: the call ends with the exception
AddThrow(a) == add' = [add EXCEPT ![a].pc = "done", ![a].threw = TRUE]

\* api.addRecipient(groupId, recipient)
AddRecipientCall(a, g) ==
  /\ add[a].pc = "idle"
  /\ g \in GroupDocs => recipientGroups[g].recipients < Len(Members(g)) + MaxAdds
  /\ add' = [add EXCEPT ![a] = [AddIdle EXCEPT !.pc = "getDoc", !.gid = g]]
  /\ UNCHANGED <<newsletters, sendVars, trackVars, mailVars, resolveVars, editVars,
                 recipientGroups, composeVars>>

\* getDoc(groupRef); a missing group: throw new Error('Group not found')
AddGetDoc(a) ==
  /\ add[a].pc = "getDoc"
  /\ \E storeOk \in BOOLEAN :
       IF storeOk /\ add[a].gid \in DOMAIN recipientGroups
         THEN add' = [add EXCEPT ![a].pc = "addDoc"]
         ELSE AddThrow(a)
  /\ UNCHANGED <<newsletters, sendVars, trackVars, mailVars, resolveVars, editVars,
                 recipientGroups, composeVars>>

\* addDoc(recipientsRef, {...recipient, addedAt})
AddAddDoc(a) ==
  /\ add[a].pc = "addDoc"
  /\ \E storeOk \in BOOLEAN :
       IF storeOk
         THEN /\ recipientGroups' = [recipientGroups EXCEPT ![add[a].gid].recipients = @ + 1]
              /\ add' = [add EXCEPT ![a].pc = "getDocs"]
         ELSE /\ AddThrow(a)
              /\ UNCHANGED recipientGroups
  /\ UNCHANGED <<newsletters, sendVars, trackVars, mailVars, resolveVars, editVars,
                 composeVars>>

\* getDocs(recipientsRef): recipients.length of the snapshot
AddGetDocs(a) ==
  /\ add[a].pc = "getDocs"
  /\ \E storeOk \in BOOLEAN :
       IF storeOk
         THEN add' = [add EXCEPT ![a].pc = "updateDoc",
                                 ![a].length = recipientGroups[add[a].gid].recipients]
         ELSE AddThrow(a)
  /\ UNCHANGED <<newsletters, sendVars, trackVars, mailVars, resolveVars, editVars,
                 recipientGroups, composeVars>>

\* updateDoc(groupRef, {recipientCount: recipients.length})
AddUpdateDoc(a) ==
  /\ add[a].pc = "updateDoc"
  /\ \E storeOk \in BOOLEAN :
       IF storeOk
         THEN /\ recipientGroups' = [recipientGroups EXCEPT
                    ![add[a].gid].recipientCount = add[a].length]
              /\ add' = [add EXCEPT ![a].pc = "done"]
         ELSE /\ AddThrow(a)
              /\ UNCHANGED recipientGroups
  /\ UNCHANGED <<newsletters, sendVars, trackVars, mailVars, resolveVars, editVars,
                 composeVars>>

\* the promise of the call has settled and the caller has gone on
AddReturn(a) ==
  /\ add[a].pc = "done"
  /\ add' = [add EXCEPT ![a] = AddIdle]
  /\ UNCHANGED <<newsletters, sendVars, trackVars, mailVars, resolveVars, editVars,
                 recipientGroups, composeVars>>

\* ------------------------------------------------------ wrapLinksWithTracking
\* A URL is a sequence of characters and words; an html document is the
\* sequence of the URLs of its href="..." attributes.
TRACKING_BASE_URL == "https://us-central1-newsletter-b104f.cloudfunctions.net"
MaxLinks == 2         \* href attributes in a document

\* String.prototype.includes on the words of the model
WordIncludes(word, w) ==
  \/ w = "track" /\ word \in {"track", "trackClickFunction", "trackOpenFunction"}
  \/ w = "unsubscribe" /\ word = "unsubscribe"

includes(url, w) == \E i \in 1..Len(url) : WordIncludes(url[i], w)

\* encodeURIComponent: "/" and "%" are escaped, letters and digits are kept
RECURSIVE encodeURIComponent(_)
encodeURIComponent(u) ==
  IF u = << >> THEN << >>
  ELSE (IF Head(u) = "/" THEN <<"%", "2", "F">>
        ELSE IF Head(u) = "%" THEN <<"%", "2", "5">>
        ELSE <<Head(u)>>) \o encodeURIComponent(Tail(u))

\* `${TRACKING_BASE_URL}/trackClickFunction?nid=${nid}&rid=${rid}&url=${encodedUrl}`
trackingUrl(url, newsletterId, recipientId) ==
  <<TRACKING_BASE_URL, "/", "trackClickFunction", "?nid=", newsletterId,
    "&rid=", recipientId, "&url=">> \o encodeURIComponent(url)

\* `${TRACKING_BASE_URL}/unsubscribe?rid=${recipientId}`
unsubscribeUrl(recipientId) == <<TRACKING_BASE_URL, "/", "unsubscribe", "?rid=", recipientId>>

\* html.replace(/href="([^"]+)"/g, ...): a URL that includes 'unsubscribe'
\* or 'track' is kept, every other one becomes a tracking URL
wrapLinksWithTracking(html, newsletterId, recipientId) ==
  [i \in 1..Len(html) |->
     IF includes(html[i], "unsubscribe") \/ includes(html[i], "track")
       THEN html[i]
       ELSE trackingUrl(html[i], newsletterId, recipientId)]

\* the URLs a newsletter body links to: two pages of a site, an order-tracking
\* page and a page about unsubscribing of that site, and links that a
\* composition has produced
Hrefs ==
  { <<"a", "/", "x">>, <<"a", "%", "x">>,
    <<"a", "/", "track", "/", "x">>, <<"a", "/", "unsubscribe">>,
    trackingUrl(<<"a", "/", "x">>, "n1", "r1"), unsubscribeUrl("r1") }

Documents == UNION {[1..k -> Hrefs] : k \in 0..MaxLinks}

CmpIdle == [pc |-> "idle", html |-> << >>, nid |-> Absent, rid |-> Absent,
            once |-> << >>, twice |-> << >>]

\* prepareEmailHTML rewrites the links of a document
ComposeCall(html, n, r) ==
  /\ cmp.pc = "idle"
  /\ cmp' = [CmpIdle EXCEPT !.pc = "composed", !.html = html, !.nid = n, !.rid = r,
                            !.once = wrapLinksWithTracking(html, n, r)]
  /\ UNCHANGED <<newsletters, sendVars, trackVars, mailVars, resolveVars, editVars,
                 groupVars>>

\* the composed document is composed a second time
ComposeAgain ==
  /\ cmp.pc = "composed"
  /\ cmp' = [cmp EXCEPT !.pc = "recomposed",
                        !.twice = wrapLinksWithTracking(cmp.once, cmp.nid, cmp.rid)]
  /\ UNCHANGED <<newsletters, sendVars, trackVars, mailVars, resolveVars, editVars,
                 groupVars>>

\* ------------------------------------------------------------ NewsletterEditor
EIds == {"e1"}        \* editor sessions
MaxSaves == 1         \* saves made through the editor over a run

\* what a session may have in its subject, htmlContent and selectedGroups
\* fields when it saves
Edits == { [subject |-> "s0", htmlContent |-> "h0", selectedGroups |-> <<"gA", "gB">>],
           [subject |-> "s1", htmlContent |-> "h1", selectedGroups |-> <<"gA", "gB">>],
           [subject |-> "s0", htmlContent |-> "h0", selectedGroups |-> <<"gX">>] }

EdClosed == [pc |-> "closed", nid |-> MissingId, initialData |-> << >>,
             newNewsletter |-> << >>, saves |-> 0]

\* const isReadOnly = initialData?.status === NewsletterStatus.SENT
isReadOnly(e) == ed[e].initialData # << >> /\ ed[e].initialData[1].status = Sent

\* the editor is opened on a newsletter of the list: initialData is the
\* record as the list had loaded it
EditorOpen(e, n) ==
  /\ ed[e].pc = "closed"
  /\ ed[e].saves < MaxSaves
  /\ n \in DOMAIN newsletters
  /\ ed' = [ed EXCEPT ![e] = [EdClosed EXCEPT !.pc = "open", !.nid = n,
                                               !.initialData = <<newsletters[n]>>,
                                               !.saves = ed[e].saves]]
  /\ UNCHANGED <<newsletters, sendVars, trackVars, mailVars, resolveVars, groupVars, composeVars>>

\* handleSave(status, scheduleAt): the buttons are rendered when !isReadOnly.
\* "Send now" saves with status Draft first, like "Save draft".
EditorSave(e, status, scheduleAt, edit) ==
  /\ ed[e].pc = "open"
  /\ ~isReadOnly(e)
  /\ ed[e].saves < MaxSaves
  /\ ed' = [ed EXCEPT ![e].pc = "getDoc", ![e].saves = @ + 1,
               ![e].newNewsletter =
                 << [subject |-> edit.subject, htmlContent |-> edit.htmlContent,
                     recipientGroupIds |-> edit.selectedGroups,
                     status |-> IF status = Sent THEN Draft ELSE status,
                     stats |-> ed[e].initialData[1].stats,
                     scheduledAt |-> IF status = Scheduled THEN scheduleAt ELSE NoTime] >>]
  /\ UNCHANGED <<newsletters, sendVars, trackVars, mailVars, resolveVars, groupVars, composeVars>>

\* saveNewsletter: const newsletterSnap = await getDoc(newsletterRef)
EditorGetDoc(e) ==
  /\ ed[e].pc = "getDoc"
  /\ \E storeOk \in BOOLEAN :
       ed' = [ed EXCEPT ![e].pc = IF storeOk THEN "updateDoc" ELSE "open"]
  /\ UNCHANGED <<newsletters, sendVars, trackVars, mailVars, resolveVars, groupVars, composeVars>>

\* saveNewsletter: await updateDoc(newsletterRef, dataToSave), with
\* sentAt: null (newNewsletter carries none) and updatedAt: serverTimestamp();
\* then onSave() closes the editor.  A failure is shown and the editor stays open.
EditorUpdateDoc(e) ==
  /\ ed[e].pc = "updateDoc"
  /\ \E storeOk \in BOOLEAN :
       IF storeOk
         THEN /\ newsletters' = [newsletters EXCEPT ![ed[e].nid] =
                    [@ EXCEPT !.subject = ed[e].newNewsletter[1].subject,
                              !.htmlContent = ed[e].newNewsletter[1].htmlContent,
                              !.recipientGroupIds = ed[e].newNewsletter[1].recipientGroupIds,
                              !.status = ed[e].newNewsletter[1].status,
                              !.stats = ed[e].newNewsletter[1].stats,
                              !.scheduledAt = ed[e].newNewsletter[1].scheduledAt,
                              !.sentAt = NoTime,
                              !.updatedAt = now]]
              /\ ed' = [ed EXCEPT ![e] = [EdClosed EXCEPT !.saves = ed[e].saves]]
         ELSE /\ ed' = [ed EXCEPT ![e].pc = "open"]
              /\ UNCHANGED newsletters
  /\ UNCHANGED <<sendVars, trackVars, mailVars, resolveVars, groupVars, composeVars>>

\* the editor is left without saving
EditorClose(e) ==
  /\ ed[e].pc = "open"
  /\ ed' = [ed EXCEPT ![e] = [EdClosed EXCEPT !.saves = ed[e].saves]]
  /\ UNCHANGED <<newsletters, sendVars, trackVars, mailVars, resolveVars, groupVars, composeVars>>

\* ------------------------------------------------------------ clock
Tick ==
  /\ now < MaxTime
  /\ now' = now + 1
  /\ UNCHANGED <<newsletters, man, sch, trackVars, mailVars, resolveVars, editVars, groupVars, composeVars>>

\* ------------------------------------------------------------ specification
InitDoc(st, at, gl) ==
  [status |-> st, scheduledAt |-> at, sentAt |-> NoTime, updatedAt |-> 0,
   stats |-> ZeroStats, recipientGroupIds |-> gl,
   subject |-> "s0", htmlContent |-> "h0"]

InitDocs ==
  { InitDoc(Draft, NoTime, gl) : gl \in GroupLists } \cup
  { InitDoc(Paused, NoTime, gl) : gl \in GroupLists } \cup
  { InitDoc(Scheduled, at, gl) : at \in 1..MaxTime, gl \in GroupLists }

\* a newsletter whose send has completed, as tracking requests usually find it
SentDocs ==
  { [InitDoc(Sent, NoTime, <<"gA", "gB">>) EXCEPT !.sentAt = 0,
        !.stats = FinalStats(3 - b, b)] : b \in 0..1 }

IdleProcesses ==
  /\ now = 0
  /\ man = [m \in MIds |-> ManIdle]
  /\ sch = [s \in SIds |-> SchIdle]
  /\ tracking = [k \in EventKeys |-> 0]
  /\ trk = [h \in HIds |-> TrkIdle]
  /\ calls = [k \in EventKeys |-> 0]
  /\ faults = [n \in NIds \cup {MissingId} |-> FALSE]
  /\ audits = 0
  /\ disp = DispIdle
  /\ res = ResIdle
  /\ ed = [e \in EIds |-> EdClosed]
  /\ recipientGroups = [g \in GroupDocs |->
        [recipientCount |-> Len(Members(g)), recipients |-> Len(Members(g))]]
  /\ add = [a \in AIds |-> AddIdle]
  /\ cmp = CmpIdle

\* no invocation is in progress
Quiet ==
  /\ \A m \in MIds : man[m].pc = "idle"
  /\ \A s \in SIds : sch[s].pc = "idle"
  /\ \A h \in HIds : trk[h].pc = "idle"

ManualSteps ==
  \/ \E m \in MIds : ManualVerify(m)
  \/ \E m \in MIds : ManualFetch(m)
  \/ \E m \in MIds : ManualRecipients(m)
  \/ \E m \in MIds : ManualMarkSending(m)
  \/ \E m \in MIds : ManualDispatch(m)
  \/ \E m \in MIds : ManualMarkSent(m)
  \/ \E m \in MIds : ManualRollback(m)
  \/ \E m \in MIds : ManualReturn(m)

SchedSteps ==
  \/ \E s \in SIds : SchedQuery(s)
  \/ \E s \in SIds : SchedRecipients(s)
  \/ \E s \in SIds : SchedMarkSending(s)
  \/ \E s \in SIds : SchedDispatch(s)
  \/ \E s \in SIds : SchedMarkSent(s)
  \/ \E s \in SIds : SchedRollback(s)
  \/ \E s \in SIds : SchedSummary(s)
  \/ \E s \in SIds : SchedReturn(s)

TrackSteps ==
  \/ \E h \in HIds : TrackQuery(h)
  \/ \E h \in HIds : TrackAdd(h)
  \/ \E h \in HIds : TrackUpdate(h)
  \/ \E h \in HIds : TrackReturn(h)

TrackIds == DOMAIN newsletters \cup {MissingId, Absent}

\* Spec: manual sends and scheduler runs on one newsletter, freely interleaved
Init ==
  /\ newsletters \in [{"n1"} -> InitDocs]
  /\ IdleProcesses

Next ==
  \/ \E m \in MIds, n \in DOMAIN newsletters \cup {MissingId} : ManualStart(m, n)
  \/ \E s \in SIds : SchedStart(s)
  \/ ManualSteps
  \/ SchedSteps
  \/ Tick

Spec == Init /\ [][Next]_vars

\* SpecSeq: the same invocations, one at a time
NextSeq ==
  \/ Quiet /\ \E m \in MIds, n \in DOMAIN newsletters \cup {MissingId} : ManualStart(m, n)
  \/ Quiet /\ \E s \in SIds : SchedStart(s)
  \/ ManualSteps
  \/ SchedSteps
  \/ Tick

SpecSeq == Init /\ [][NextSeq]_vars

\* SpecTrack: tracking requests on one newsletter, freely interleaved
InitTrack ==
  /\ newsletters \in [{"n1"} -> SentDocs]
  /\ IdleProcesses

NextTrack ==
  \/ \E h \in HIds, n \in DOMAIN newsletters, r \in RIds \cup {Absent} :
       TrackOpenRequest(h, n, r)
  \/ \E h \in HIds, n \in DOMAIN newsletters, r \in RIds, u \in Urls \cup {NoUrl} :
       TrackClickRequest(h, n, r, u)
  \/ TrackSteps

SpecTrack == InitTrack /\ [][NextTrack]_vars

\* SpecTrackSeq: tracking requests that do not overlap
NextTrackSeq ==
  \/ Quiet /\ \E h \in HIds, n \in TrackIds, r \in RIds \cup {Absent} :
       TrackOpenRequest(h, n, r)
  \/ Quiet /\ \E h \in HIds, n \in TrackIds, r \in RIds \cup {Absent}, u \in Urls \cup {NoUrl} :
       TrackClickRequest(h, n, r, u)
  \/ TrackSteps

SpecTrackSeq == InitTrack /\ [][NextTrackSeq]_vars

\* SpecDispatch: one sendNewsletterEmails call, its attempts settling in any order
DispatchSteps ==
  \/ DispatchBatch
  \/ \E k \in 1..BATCH_SIZE : AttemptSettles(k)
  \/ DispatchAggregate
  \/ DispatchDelayOver
  \/ DispatchFinish

\* the newsletter being sent is in Sending while the dispatcher runs
InitDispatch ==
  /\ newsletters = [n \in {"n1"} |-> InitDoc(Sending, NoTime, <<"gA", "gB">>)]
  /\ IdleProcesses

NextDispatch ==
  \/ \E n \in 1..MaxRecipients : \E failing \in FailurePatterns(n) : DispatchCall(n, failing)
  \/ DispatchSteps

SpecDispatch == InitDispatch /\ [][NextDispatch]_vars

\* SpecSched: scheduler runs over two scheduled newsletters
SchedDocIds == {"n1", "n2"}

InitSched ==
  /\ newsletters \in [SchedDocIds ->
        { InitDoc(Scheduled, at, gl) : at \in 0..MaxTime, gl \in {<< >>, <<"gC">>} }]
  /\ IdleProcesses

NextSched ==
  \/ \E s \in SIds : SchedStart(s)
  \/ SchedSteps
  \/ Tick

SpecSched == InitSched /\ [][NextSched]_vars

\* SpecSchedFair: the schedule keeps firing, every run goes on to its end, and
\* a store call or send that is tried again and again does not fail forever
FairSched ==
  /\ WF_vars(Tick)
  /\ WF_vars((\E s \in SIds : SchedStart(s)) \/ SchedSteps)
  /\ \A s \in SIds :
       /\ SF_vars(SchedQuery(s) /\ sch'[s].pc = "recipients")
       /\ \A n \in SchedDocIds :
            /\ SF_vars(SchedRecipients(s) /\ sch[s].due[sch[s].i].id = n
                          /\ sch'[s].pc = "sending")
            /\ SF_vars(SchedMarkSending(s) /\ sch[s].due[sch[s].i].id = n
                          /\ sch'[s].pc = "dispatch")
            /\ SF_vars(SchedMarkSent(s) /\ sch[s].due[sch[s].i].id = n
                          /\ sch'[s].pc # "catch")

SpecSchedFair == InitSched /\ [][NextSched]_vars /\ FairSched

\* SpecGroups: addRecipient calls on the groups, freely interleaved
AddSteps ==
  \/ \E a \in AIds : AddGetDoc(a)
  \/ \E a \in AIds : AddAddDoc(a)
  \/ \E a \in AIds : AddGetDocs(a)
  \/ \E a \in AIds : AddUpdateDoc(a)
  \/ \E a \in AIds : AddReturn(a)

NextGroups ==
  \/ \E a \in AIds, g \in {"gA", "gX"} : AddRecipientCall(a, g)
  \/ AddSteps

SpecGroups == InitDispatch /\ [][NextGroups]_vars

\* SpecCompose: link rewriting applied to every document, once and twice
NextCompose ==
  \/ \E html \in Documents, n \in {"n1"}, r \in {"r1", "r2"} : ComposeCall(html, n, r)
  \/ ComposeAgain

SpecCompose == InitDispatch /\ [][NextCompose]_vars

\* SpecResolve: fetchRecipients applied to every list of group ids
NextResolve ==
  \/ \E groupIds \in GroupIdLists : ResolveCall(groupIds)
  \/ ResolveReturn

SpecResolve == InitDispatch /\ [][NextResolve]_vars

\* SpecEdit: an editor session beside manual sends
EditorSteps ==
  \/ \E e \in EIds, n \in DOMAIN newsletters : EditorOpen(e, n)
  \/ \E e \in EIds, edit \in Edits, status \in {Draft, Sent} :
       EditorSave(e, status, NoTime, edit)
  \/ \E e \in EIds, edit \in Edits, at \in 1..MaxTime : EditorSave(e, Scheduled, at, edit)
  \/ \E e \in EIds : EditorGetDoc(e)
  \/ \E e \in EIds : EditorUpdateDoc(e)
  \/ \E e \in EIds : EditorClose(e)

InitEdit ==
  /\ newsletters \in [{"n1"} -> { InitDoc(Draft, NoTime, <<"gA", "gB">>),
                                   InitDoc(Scheduled, 1, <<"gA", "gB">>) }]
  /\ IdleProcesses

NextEdit ==
  \/ EditorSteps
  \/ \E m \in MIds, n \in DOMAIN newsletters : ManualStart(m, n)
  \/ ManualSteps

SpecEdit == InitEdit /\ [][NextEdit]_vars

\* SpecAll: scheduler runs, an editor session and tracking requests on one
\* due newsletter, freely interleaved, and manual sends of it made while
\* nothing else is in progress
MaxAllCalls == 1      \* tracking requests over a run of SpecAll

InitAll ==
  /\ newsletters = [n \in {"n1"} |-> InitDoc(Scheduled, 0, <<"gC">>)]
  /\ IdleProcesses

NoManualSend == \A m \in MIds : man[m].pc = "idle"

NothingInProgress ==
  /\ Quiet
  /\ \A e \in EIds : ed[e].pc = "closed"

NextAll ==
  \/ NothingInProgress /\ \E m \in MIds, n \in DOMAIN newsletters : ManualStart(m, n)
  \/ ManualSteps
  \/ NoManualSend /\ \E s \in SIds : SchedStart(s)
  \/ SchedSteps
  \/ NoManualSend /\ \E e \in EIds, n \in DOMAIN newsletters : EditorOpen(e, n)
  \/ \E e \in EIds :
       EditorSave(e, Draft, NoTime,
                  [subject |-> "s1", htmlContent |-> "h1", selectedGroups |-> <<"gC">>])
  \/ \E e \in EIds : EditorGetDoc(e)
  \/ \E e \in EIds : EditorUpdateDoc(e)
  \/ \E e \in EIds : EditorClose(e)
  \/ NoManualSend /\ TotalCalls < MaxAllCalls /\ \E n \in DOMAIN newsletters :
       TrackOpenRequest("h1", n, "r1")
  \/ NoManualSend /\ TotalCalls < MaxAllCalls /\ \E n \in DOMAIN newsletters :
       TrackClickRequest("h1", n, "r1", <<"a", "/", "x">>)
  \/ TrackSteps

SpecAll == InitAll /\ [][NextAll]_vars

\* ==================================================================== claims

Doc(n) == newsletters[n]
Before(m) == man[m].before[1]
FinishedWith(m, errs) == man[m].pc = "done" /\ man[m].err \in errs

RECURSIVE CallsOver(_, _, _)
CallsOver(n, kind, rs) ==
  IF rs = {} THEN 0
  ELSE LET r == CHOOSE x \in rs : TRUE
       IN calls[<<n, r, kind>>] + CallsOver(n, kind, rs \ {r})

\* accepted requests of one kind for newsletter n, and the distinct recipients among them
CallsOf(n, kind) == CallsOver(n, kind, RIds)
DistinctCallers(n, kind) == Cardinality({r \in RIds : calls[<<n, r, kind>>] > 0})

\* requests of one kind for n that have not yet reached their counter update
InFlight(n, kind) ==
  Cardinality({h \in HIds : /\ trk[h].nid = n /\ trk[h].kind = kind
                            /\ trk[h].pc \in {"query", "add", "update"}})

NoRequestInProgress == \A h \in HIds : trk[h].pc \in {"idle", "done"}

\* C1 (as claimed): a manual send of a Sent newsletter fails with AlreadySent
\* (failed-precondition) and leaves every field of the record as it was.
C1_SentSendLeavesRecord ==
  \A m \in MIds :
    FinishedWith(m, {"AlreadySent"}) =>
      /\ HttpsCode(man[m].err) = "failed-precondition"
      /\ Doc(man[m].nid) = Before(m)

\* C2 (as claimed): Sent is terminal: no step changes a Sent newsletter's status.
C2_SentIsTerminal ==
  [][\A n \in DOMAIN newsletters :
       newsletters[n].status = Sent => newsletters'[n].status = Sent]_vars

\* C3 (as claimed): a manual send of a Draft newsletter that throws after Sending
\* was written ends in Draft with the stats block as before the send.
C3_DraftSendEndsInDraft ==
  \A m \in MIds :
    (man[m].pc = "done" /\ man[m].err # "none" /\ man[m].wroteSending
       /\ Before(m).status = Draft) =>
      /\ Doc(man[m].nid).status = Draft
      /\ Doc(man[m].nid).stats = Before(m).stats

\* C3 (amended): such a send leaves stats and sentAt as before the send, and ends
\* in Draft when its rollback write succeeds; when the rollback write throws too,
\* the error is swallowed and the newsletter stays in Sending.
C3_DraftSendRollsBack ==
  \A m \in MIds :
    (man[m].pc = "done" /\ man[m].err # "none" /\ man[m].wroteSending
       /\ Before(m).status = Draft) =>
      /\ Doc(man[m].nid).stats = Before(m).stats
      /\ Doc(man[m].nid).sentAt = Before(m).sentAt
      /\ Doc(man[m].nid).status = IF man[m].rolledBack THEN Draft ELSE Sending

\* C3 witness: the final write threw after a dispatch and the rollback restored Draft
C3_Witness ==
  \E m \in MIds :
    /\ man[m].pc = "done" /\ man[m].err = "Internal" /\ man[m].wroteSending
    /\ man[m].ok + man[m].failed > 0 /\ man[m].rolledBack
    /\ Before(m).status = Draft
    /\ Doc(man[m].nid).status = Draft

\* the newsletter of the k-th document a scheduler run has handled
Handled(s, k) == newsletters[sch[s].due[k].id]

\* C4 (as claimed): a scheduler-path send that throws ends in Scheduled, never
\* in Draft and never left in Sending.
C4_FailedScheduledSendEndsScheduled ==
  \A s \in SIds : \A k \in 1..Len(sch[s].outcomes) :
    sch[s].outcomes[k] \in {"rolledBack", "rollbackThrew"} =>
      Handled(s, k).status = Scheduled

\* C4 (amended): a scheduler-path send that throws ends in Scheduled when its
\* rollback write succeeds; when the rollback write throws too, the newsletter
\* keeps the status it had, Sending if Sending had been written; never Draft.
C4_FailedScheduledSendRollsBack ==
  \A s \in SIds : \A k \in 1..Len(sch[s].outcomes) :
    /\ sch[s].outcomes[k] = "rolledBack" => Handled(s, k).status = Scheduled
    /\ sch[s].outcomes[k] = "rollbackThrew" =>
         Handled(s, k).status = IF sch[s].wroteSending THEN Sending ELSE Scheduled

\* C4 witness: the Sent write threw after Sending was written; rolled back to Scheduled
C4_Witness ==
  \E s \in SIds :
    /\ sch[s].outcomes = <<"rolledBack">> /\ sch[s].wroteSending
    /\ sch[s].ok + sch[s].failed > 0
    /\ Handled(s, 1).status = Scheduled

\* C5 (as claimed): a manual send that fails ConfigurationInvalid or NoRecipients
\* before Sending was written leaves status and stats as they were.
C5_PreconditionFailureLeavesRecord ==
  \A m \in MIds :
    (FinishedWith(m, {"ConfigurationInvalid", "NoRecipients"}) /\ ~man[m].wroteSending
       /\ man[m].nid \in DOMAIN newsletters) =>
      /\ Doc(man[m].nid).status = Before(m).status
      /\ Doc(man[m].nid).stats = Before(m).stats

\* C6: with non-overlapping recordOpen calls whose store calls succeed,
\* stats.opened is the number of calls and stats.uniqueOpened the number of
\* distinct recipients among them.
C6_OpenCounts ==
  \A n \in DOMAIN newsletters :
    (NoRequestInProgress /\ ~faults[n]) =>
      /\ Doc(n).stats.opened = CallsOf(n, "open")
      /\ Doc(n).stats.uniqueOpened = DistinctCallers(n, "open")

\* C6 witness: r1 opened twice and r2 once: opened = 3, uniqueOpened = 2
C6_Witness ==
  /\ NoRequestInProgress /\ ~faults["n1"]
  /\ calls[<<"n1", "r1", "open">>] = 2 /\ calls[<<"n1", "r2", "open">>] = 1
  /\ Doc("n1").stats.opened = 3 /\ Doc("n1").stats.uniqueOpened = 2

\* C7: recordClick counts the same way on the click counters, and uniqueness is
\* per event type: stats.clicked is the number of click calls and
\* stats.uniqueClicked the number of distinct clicking recipients, whatever
\* open events exist.
C7_ClickCounts ==
  \A n \in DOMAIN newsletters :
    (NoRequestInProgress /\ ~faults[n]) =>
      /\ Doc(n).stats.clicked = CallsOf(n, "click")
      /\ Doc(n).stats.uniqueClicked = DistinctCallers(n, "click")

\* C7 witness: a first click counted as unique for a recipient who has open events
C7_Witness ==
  \E h \in HIds :
    /\ trk[h].pc = "done" /\ trk[h].kind = "click" /\ trk[h].isUnique /\ ~trk[h].threw
    /\ trk[h].nid \in DOMAIN newsletters /\ ~faults[trk[h].nid]
    /\ tracking[<<trk[h].nid, trk[h].rid, "open">>] > 0
    /\ Doc(trk[h].nid).stats.uniqueClicked = 1
    /\ Doc(trk[h].nid).stats.uniqueOpened = 1

UniqueCounter(n, kind) ==
  IF kind = "open" THEN newsletters[n].stats.uniqueOpened
                   ELSE newsletters[n].stats.uniqueClicked

UniqueCounterNext(n, kind) ==
  IF kind = "open" THEN newsletters'[n].stats.uniqueOpened
                   ELSE newsletters'[n].stats.uniqueClicked

\* C8: check-then-increment is not transactional: a request's counter update
\* adds to the unique counter exactly when its own earlier query found no prior
\* event, whatever other requests have recorded since; so two overlapping
\* requests of one recipient both count as unique (the witness).
C8_IncrementFollowsEarlierCheck ==
  [][\A h \in HIds :
       (trk[h].pc = "update" /\ trk'[h].pc = "done" /\ ~trk'[h].threw) =>
         UniqueCounterNext(trk[h].nid, trk[h].kind) =
           UniqueCounter(trk[h].nid, trk[h].kind) + (IF trk[h].isUnique THEN 1 ELSE 0)]_vars

\* C8 witness: two requests of one recipient both observed no prior event and
\* both incremented: the unique counter is one above the distinct recipients
C8_Witness ==
  \E h1 \in HIds : \E h2 \in HIds \ {h1} :
    /\ trk[h1].pc = "done" /\ trk[h2].pc = "done"
    /\ ~trk[h1].threw /\ ~trk[h2].threw
    /\ trk[h1].isUnique /\ trk[h2].isUnique
    /\ trk[h1].nid = "n1" /\ trk[h2].nid = "n1"
    /\ trk[h1].rid = trk[h2].rid /\ trk[h1].kind = trk[h2].kind
    /\ ~faults["n1"]
    /\ UniqueCounter("n1", trk[h1].kind) = DistinctCallers("n1", trk[h1].kind) + 1

\* C9: counter writes are atomic increments: in every interleaving, as long as
\* no store call threw, each total counter equals the accepted requests of its
\* kind minus those that have not yet reached their update.
C9_NoLostTotals ==
  \A n \in DOMAIN newsletters :
    ~faults[n] =>
      /\ Doc(n).stats.opened + InFlight(n, "open") = CallsOf(n, "open")
      /\ Doc(n).stats.clicked + InFlight(n, "click") = CallsOf(n, "click")

\* C9 witness: three opens counted, the last two of them overlapping
C9_Witness ==
  \E h1 \in HIds : \E h2 \in HIds \ {h1} :
    /\ trk[h1].pc = "done" /\ trk[h2].pc = "done"
    /\ ~trk[h1].threw /\ ~trk[h2].threw
    /\ trk[h1].kind = "open" /\ trk[h2].kind = "open"
    /\ trk[h1].nid = "n1" /\ trk[h2].nid = "n1"
    /\ trk[h1].rid = trk[h2].rid /\ trk[h1].isUnique /\ trk[h2].isUnique
    /\ ~faults["n1"]
    /\ Doc("n1").stats.opened = 3

\* C10: every open request that carries both ids is answered 200 with the
\* pixel bytes, whether its store calls succeed or throw.
C10_OpenAlwaysAnswersPixel ==
  \A h \in HIds :
    (trk[h].pc = "done" /\ trk[h].kind = "open"
       /\ trk[h].nid # Absent /\ trk[h].rid # Absent) =>
      /\ Len(trk[h].resp) = 1
      /\ trk[h].resp[1].status = 200
      /\ trk[h].resp[1].body = "TRACKING_PIXEL"

\* C10 witness: the counter update threw after the event was stored; pixel answered
C10_Witness ==
  \E h \in HIds :
    /\ trk[h].pc = "done" /\ trk[h].kind = "open" /\ trk[h].threw
    /\ tracking[<<trk[h].nid, trk[h].rid, "open">>] > 0
    /\ trk[h].resp = PixelResponse(TRUE)

\* a click request that carries all three parameters
ClickWithParameters(h) ==
  /\ trk[h].kind = "click"
  /\ trk[h].nid # Absent /\ trk[h].rid # Absent /\ trk[h].url # NoUrl

\* C11: every click request carrying nid, rid and url is answered with a 302
\* redirect to the decoded url, whether the tracking writes succeed or throw.
\* Violated: a url with a malformed escape makes decodeURIComponent throw in
\* the try block and again in the catch block, and nothing is answered.
C11_ClickAlwaysRedirects ==
  \A h \in HIds :
    (trk[h].pc = "done" /\ ClickWithParameters(h)) =>
      /\ Len(trk[h].resp) = 1
      /\ trk[h].resp[1].status = 302
      /\ decodeURIComponent(trk[h].url).ok =>
            trk[h].resp[1].location = decodeURIComponent(trk[h].url).value

\* a request that lacks one of its parameters
MissingParameter(r) ==
  r.nid = Absent \/ r.rid = Absent \/ (r.kind = "click" /\ r.url = NoUrl)

\* C12: a tracking request that lacks nid or rid (or url, for a click) is
\* answered 400 in the step that receives it, and that step appends no
\* tracking event, changes no newsletter counter and emits no audit event.
C12_MissingParameterNoEffect ==
  [][\A h \in HIds :
       (trk[h].pc = "idle" /\ trk'[h].pc # "idle" /\ MissingParameter(trk'[h])) =>
         /\ trk'[h].pc = "done"
         /\ trk'[h].resp = BadRequest
         /\ tracking' = tracking
         /\ newsletters' = newsletters
         /\ audits' = audits]_vars

\* a click without url was rejected after an earlier request had been recorded
C12_Witness ==
  \E h \in HIds :
    /\ trk[h].pc = "done" /\ trk[h].resp = BadRequest
    /\ trk[h].kind = "click" /\ trk[h].url = NoUrl
    /\ trk[h].nid # Absent /\ trk[h].rid # Absent
    /\ audits > 0
    /\ \E k \in EventKeys : tracking[k] > 0

\* the recipients whose sendSingleEmail promise is pending
AttemptsInFlight == IF disp.pc = "await" THEN {disp.batch[j] : j \in disp.pending} ELSE {}

\* the batch a recipient of the list falls in, counted from 0
BatchOf(k) == (k - 1) \div BATCH_SIZE

\* Math.ceil(n / BATCH_SIZE)
BatchCount(n) == (n + BATCH_SIZE - 1) \div BATCH_SIZE

DispatchDone == disp.pc = "done"

\* C13: the result of a dispatch over any recipient list and any pattern of
\* failures has successCount + failureCount = totalRecipients = the number of
\* recipients given, and success is true exactly when failureCount is 0.
C13_ResultCountsAddUp ==
  DispatchDone =>
    /\ disp.results.successCount + disp.results.failureCount = disp.results.totalRecipients
    /\ disp.results.totalRecipients = Len(disp.recipients)
    /\ disp.results.failureCount = Cardinality(disp.failing)
    /\ disp.results.success <=> (disp.results.failureCount = 0)

\* a dispatch over more than one batch ended with successes and failures
C13_Witness ==
  /\ DispatchDone
  /\ Len(disp.recipients) > BATCH_SIZE
  /\ disp.results.successCount > 0 /\ disp.results.failureCount > 0
  /\ ~disp.results.success

\* C14: at every moment at most BATCH_SIZE send attempts are in flight, and
\* while an attempt of one batch is in flight every recipient of an earlier
\* batch has been attempted and has settled, and no recipient of a later
\* batch has been attempted.
C14_OneBatchInFlight ==
  /\ Cardinality(AttemptsInFlight) <= BATCH_SIZE
  /\ \A a \in AttemptsInFlight : \A b \in 1..Len(disp.recipients) :
        /\ BatchOf(b) < BatchOf(a) => (disp.attempts[b] > 0 /\ b \notin AttemptsInFlight)
        /\ BatchOf(b) > BatchOf(a) => disp.attempts[b] = 0

\* the whole second batch is in flight
C14_Witness ==
  /\ disp.pc = "await"
  /\ disp.i = BATCH_SIZE
  /\ Cardinality(AttemptsInFlight) = BATCH_SIZE

C16_EveryRecipientAttemptedOnce ==
  DispatchDone =>
    /\ \A k \in 1..Len(disp.recipients) : disp.attempts[k] = 1
    /\ Len(disp.results.errors) = disp.results.failureCount
    /\ Len(disp.results.errors) = Cardinality(disp.failing)
    /\ {disp.results.errors[j].recipientEmail : j \in 1..Len(disp.results.errors)}
         = disp.failing

\* a dispatch in which every attempt failed went through more than one batch
C16_Witness ==
  /\ DispatchDone
  /\ Len(disp.recipients) > BATCH_SIZE
  /\ disp.failing = 1..Len(disp.recipients)
  /\ Len(disp.batches) > 1

\* C17: a list of n recipients is dispatched in ceil(n / BATCH_SIZE) batches
\* taken in list order, each of BATCH_SIZE recipients except possibly the
\* last, with exactly ceil(n / BATCH_SIZE) - 1 delays; and a dispatch that has
\* not ended always has a next step.
C17_BatchesAndDelays ==
  /\ disp.pc = "await" =>
        /\ disp.i = BATCH_SIZE * (Len(disp.batches) - 1)
        /\ disp.batch = [j \in 1..Len(disp.batch) |-> disp.recipients[disp.i + j]]
  /\ DispatchDone =>
        LET n == Len(disp.recipients)
        IN /\ Len(disp.batches) = BatchCount(n)
           /\ \A j \in 1..(BatchCount(n) - 1) : disp.batches[j] = BATCH_SIZE
           /\ disp.batches[BatchCount(n)] = n - BATCH_SIZE * (BatchCount(n) - 1)
           /\ disp.delays = BatchCount(n) - 1
           /\ n <= BATCH_SIZE => disp.delays = 0
  /\ disp.pc \notin {"idle", "done"} => ENABLED DispatchSteps

\* 25 recipients went out as batches of 10, 10 and 5 with 2 delays
C17_Witness ==
  /\ DispatchDone
  /\ Len(disp.recipients) = 25
  /\ disp.batches = <<10, 10, 5>>
  /\ disp.delays = 2

\* the newsletter the scheduler run is processing
Item(s) == sch[s].due[sch[s].i].id

\* the final write of a send, as it must leave newsletter n
FinalWrite(n, recipients, successCount, failureCount) ==
  /\ newsletters'[n].status = Sent
  /\ newsletters'[n].sentAt = now /\ newsletters'[n].updatedAt = now
  /\ newsletters'[n].stats.sent = successCount
  /\ newsletters'[n].stats.bounced = failureCount
  /\ newsletters'[n].stats.sent + newsletters'[n].stats.bounced = recipients
  /\ recipients = Len(fetchRecipients(newsletters[n].recipientGroupIds))

\* C18 as stated: every send whose dispatch completed ends with the
\* newsletter Sent, sentAt set, stats.sent = successCount and stats.bounced =
\* failureCount.  Violated when the final write throws after the dispatch.
C18_CompletedDispatchEndsSent ==
  \A m \in MIds :
    (man[m].pc = "done" /\ man[m].recipients > 0
       /\ man[m].ok + man[m].failed = man[m].recipients) =>
      /\ Doc(man[m].nid).status = Sent
      /\ Doc(man[m].nid).sentAt # NoTime
      /\ Doc(man[m].nid).stats.sent = man[m].ok
      /\ Doc(man[m].nid).stats.bounced = man[m].failed

\* C18: on the manual and on the scheduler path, a send whose dispatch
\* completes and whose final write succeeds sets, in that one write, status
\* Sent, sentAt, stats.sent = successCount and stats.bounced = failureCount,
\* which add up to the number of resolved recipients; a manual send that
\* returned without error has left the newsletter so.
C18_FinalWriteRecordsDispatch ==
  /\ [][/\ \A m \in MIds :
            (man[m].pc = "final" /\ man'[m].pc = "done") =>
              FinalWrite(man[m].nid, man[m].recipients, man[m].ok, man[m].failed)
        /\ \A s \in SIds :
            (sch[s].pc = "final" /\ sch'[s].pc \notin {"final", "catch"}) =>
              FinalWrite(Item(s), sch[s].recipients, sch[s].ok, sch[s].failed)]_vars
  /\ [](\A m \in MIds :
          FinishedWith(m, {"none"}) =>
            /\ Doc(man[m].nid).status = Sent
            /\ Doc(man[m].nid).sentAt = Doc(man[m].nid).updatedAt
            /\ Doc(man[m].nid).stats = FinalStats(man[m].ok, man[m].failed)
            /\ man[m].ok + man[m].failed = man[m].recipients)

\* a scheduler run sent its newsletter with one recipient failed
C18_Witness ==
  \E s \in SIds :
    /\ sch[s].pc = "summary" /\ sch[s].outcomes = <<"sent">>
    /\ sch[s].failed > 0 /\ sch[s].ok > 0
    /\ Doc(Item(s)).status = Sent
    /\ Doc(Item(s)).stats.bounced = sch[s].failed

FirstFailing(m) ==
  IF man[m].nid \notin DOMAIN newsletters THEN "NotFound"
  ELSE IF Before(m).status = Sent THEN "AlreadySent"
  ELSE IF ~man[m].configValid THEN "ConfigurationInvalid"
  ELSE IF fetchRecipients(Before(m).recipientGroupIds) = << >> THEN "NoRecipients"
  ELSE "none"

\* C20: a manual send that fails a precondition (and meets no store failure)
\* reports the first failing one in the order exists, not Sent, relay
\* configuration valid, recipients non-empty.  Violated: the relay
\* configuration is verified before the newsletter is read.
C20_PreconditionOrder ==
  \A m \in MIds :
    (man[m].pc = "done" /\ man[m].err # "Internal") => man[m].err = FirstFailing(m)

\* C21: a manual send for an id with no newsletter document (that meets no
\* store failure) fails with NotFound, writes no newsletter record and writes
\* no other record.  Violated: with an invalid relay configuration the call
\* fails with ConfigurationInvalid before the document is read (C20), and
\* the catch block writes a send-failed audit record on every failure.
C21_MissingIdNotFoundNoWrites ==
  \A m \in MIds :
    (man[m].pc = "done" /\ man[m].nid \notin DOMAIN newsletters
       /\ man[m].err # "Internal") =>
      /\ man[m].err = "NotFound"
      /\ ~man[m].wroteSending /\ ~man[m].rolledBack
      /\ man[m].audit = ManIdle.audit

\* String.prototype.toLowerCase on the emails of the model
toLowerCase(email) == IF email = "B@x.com" THEN "b@x.com" ELSE email

\* C22: the resolved recipient list holds no two entries whose emails are
\* equal after lower-casing.  Violated: seenEmails holds the emails as
\* stored, so "b@x.com" and "B@x.com" are both kept.
C22_NoDuplicateLowerCased ==
  res.pc = "done" =>
    \A i, j \in 1..Len(res.out) :
      i # j => toLowerCase(res.out[i].email) # toLowerCase(res.out[j].email)

\* the recipient documents of the listed groups, in group-list order
RECURSIVE Flatten(_)
Flatten(groupIds) ==
  IF groupIds = << >> THEN << >>
  ELSE Members(Head(groupIds)) \o Flatten(Tail(groupIds))

\* the positions of Flatten that hold the first record of their email
FirstOfEmail(flat) ==
  {k \in 1..Len(flat) : \A j \in 1..(k - 1) : flat[j].email # flat[k].email}

\* the i-th smallest member of a set of numbers
KthOf(S, i) == CHOOSE k \in S : Cardinality({j \in S : j <= k}) = i

\* C23: recipient resolution returns, for every list of group ids, the
\* records of the existing groups of the list in group-list order, a group
\* that does not exist being skipped and the groups after it still read, and
\* of the records with one email only the first; an empty list or a list of
\* only missing groups yields the empty list.
C23_SkipsMissingKeepsFirst ==
  res.pc = "done" =>
    LET flat == Flatten(res.groupIds)
        keep == FirstOfEmail(flat)
    IN /\ Len(res.out) = Cardinality(keep)
       /\ \A i \in 1..Len(res.out) : res.out[i] = flat[KthOf(keep, i)]
       /\ (\A k \in 1..Len(res.groupIds) : res.groupIds[k] \notin GroupDocs)
            => res.out = << >>

\* a missing group between two groups that share an email was skipped
C23_Witness ==
  /\ res.pc = "done"
  /\ res.groupIds = <<"gA", "gX", "gB">>
  /\ Len(res.out) = 3
  /\ res.out[2].id = "r2" /\ res.out[3].id = "r4"

\* C24: within one scheduler run a failure on one due newsletter does not end
\* the run: every newsletter the query found is processed.  Violated: the
\* rollback write of the inner catch is not guarded, and when it throws the
\* outer catch ends the run with the remaining newsletters not processed.
C24_EveryDueNewsletterProcessed ==
  \A s \in SIds :
    sch[s].pc = "done" => Len(sch[s].outcomes) = Len(sch[s].due)

\* the newsletter the scheduler run is working on
SchedItem(s) == sch[s].due[sch[s].i].id

\* the newsletter is scheduled and resolves to at least one recipient
ScheduledWithRecipients(n) ==
  /\ newsletters[n].status = Scheduled
  /\ Len(fetchRecipients(newsletters[n].recipientGroupIds)) > 0

\* a run has ended in the outer catch because a rollback write threw: the
\* newsletter of that write keeps the status it had, Sending after the
\* Sending write, and the newsletters after it were not processed
RollbackThrew ==
  \E s \in SIds :
    /\ sch[s].pc = "done"
    /\ Len(sch[s].outcomes) > 0
    /\ sch[s].outcomes[Len(sch[s].outcomes)] = "rollbackThrew"

C27_OneSummaryCountsDue ==
  \A s \in SIds :
    sch[s].pc = "done" =>
      /\ Len(sch[s].summary) = 1
      /\ sch[s].summary[1].newslettersFound = Len(sch[s].due)
      /\ Len(sch[s].due) = 0 => sch[s].summary[1].newslettersSent = 0

\* the scheduler writes Sending to the newsletter of its current item
SchedWritesSending(s) == sch[s].pc = "sending" /\ sch'[s].wroteSending

\* C26 as stated: at the Sending write of the scheduler the stored status of
\* the newsletter is Scheduled and its scheduledAt is at most the now of the
\* run.  Violated: a manual send that runs between the query and the write
\* has changed the stored status, and the write is not conditional on it.
C26_StoredScheduledAtSendingWrite ==
  [][\A s \in SIds :
       SchedWritesSending(s) =>
         /\ newsletters[SchedItem(s)].status = Scheduled
         /\ newsletters[SchedItem(s)].scheduledAt <= sch[s].now]_vars

\* C26: the query of a run returns exactly the newsletters that are stored
\* as Scheduled with scheduledAt at most the now of the run, as they are
\* stored when the query reads them, and the scheduler writes Sending only
\* to a newsletter of that query result: a newsletter it read as Scheduled
\* and due.  (The write itself does not look at the stored status.)
C26_SendingWriteOnlyToQueriedDue ==
  /\ [][\A s \in SIds :
         (sch[s].pc = "query" /\ sch'[s].pc # "query") =>
           /\ \A k \in 1..Len(sch'[s].due) :
                LET d == sch'[s].due[k]
                IN /\ d.status = newsletters[d.id].status
                   /\ d.scheduledAt = newsletters[d.id].scheduledAt
           /\ \A n \in DOMAIN newsletters :
                (Len(sch'[s].due) > 0 /\ newsletters[n].status = Scheduled
                   /\ newsletters[n].scheduledAt <= sch[s].now)
                  => \E k \in 1..Len(sch'[s].due) : sch'[s].due[k].id = n]_vars
  /\ [][\A s \in SIds :
         SchedWritesSending(s) =>
           /\ sch[s].due[sch[s].i].status = Scheduled
           /\ sch[s].due[sch[s].i].scheduledAt \in 0..sch[s].now
           /\ newsletters'[SchedItem(s)].status = Sending
           /\ \A n \in DOMAIN newsletters \ {SchedItem(s)} :
                newsletters'[n] = newsletters[n]]_vars

\* the scheduler has written Sending to a newsletter that a manual send had
\* moved to Sent after the query of the run
C26_Witness ==
  \E s \in SIds, m \in MIds :
    /\ sch[s].pc = "dispatch" /\ sch[s].wroteSending
    /\ man[m].pc = "done" /\ man[m].nid = SchedItem(s) /\ man[m].result # << >>
    /\ newsletters[SchedItem(s)].status = Sending
    /\ newsletters[SchedItem(s)].sentAt # NoTime

\* C28: once the status of a newsletter is Sent, no step changes its subject,
\* its body markup or its list of recipient groups.  Violated: an editor
\* session that loaded the newsletter before it was sent is not read-only,
\* and saveNewsletter overwrites the stored document without reading its
\* status.
C28_SentContentImmutable ==
  [][\A n \in DOMAIN newsletters :
       newsletters[n].status = Sent =>
         /\ newsletters'[n].subject = newsletters[n].subject
         /\ newsletters'[n].htmlContent = newsletters[n].htmlContent
         /\ newsletters'[n].recipientGroupIds = newsletters[n].recipientGroupIds]_vars

\* C29: no step of a manual send or of a scheduler run changes the status of
\* a newsletter that is Paused, and none writes Paused.  Violated: the
\* manual send refuses only status Sent, so it moves a Paused newsletter to
\* Sending and on to Sent, or to Draft in its catch block.
C29_PausedUntouched ==
  [][\A n \in DOMAIN newsletters :
       /\ newsletters[n].status = Paused => newsletters'[n].status = Paused
       /\ newsletters'[n].status = Paused => newsletters[n].status = Paused]_vars

\* C30: the Sending write is unprotected on both paths: whatever the stored
\* status of the newsletter, and whatever the other path is doing with it,
\* a manual send or a scheduler run that has passed its checks can write
\* Sending and go on to dispatch.
C30_SendingWriteUnprotected ==
  /\ \A s \in SIds :
       sch[s].pc = "sending" => ENABLED (SchedMarkSending(s) /\ sch'[s].wroteSending)
  /\ \A m \in MIds :
       man[m].pc = "sending" => ENABLED (ManualMarkSending(m) /\ man'[m].wroteSending)

\* a manual send and a scheduler run have both written Sending to the same
\* newsletter, which both read as Scheduled, and both have mailed every
\* recipient of it
C30_Witness ==
  \E s \in SIds, m \in MIds :
    /\ sch[s].pc = "final" /\ man[m].pc = "final"
    /\ man[m].nid = SchedItem(s)
    /\ sch[s].wroteSending /\ man[m].wroteSending
    /\ sch[s].due[sch[s].i].status = Scheduled
    /\ man[m].before # << >> /\ man[m].before[1].status = Scheduled
    /\ sch[s].recipients > 0 /\ sch[s].ok = sch[s].recipients
    /\ man[m].recipients > 0 /\ man[m].ok = man[m].recipients

\* the stored member count of a group is the number of its recipient documents
CountIsExact(g) == recipientGroups[g].recipientCount = recipientGroups[g].recipients

\* C31: when the addRecipient calls on a group have completed, the stored
\* recipientCount of the group is the number of recipient documents in it.
\* Violated: of two overlapping calls the one that read the subcollection
\* first can write its count last.
C31_CountExactAfterAdds ==
  \A g \in GroupDocs :
    (\A a \in AIds : add[a].pc = "done" /\ ~add[a].threw /\ add[a].gid = g)
      => CountIsExact(g)

\* the URL points at the click-tracking or at the unsubscribe endpoint
PointsAtEndpoint(url) ==
  /\ Len(url) >= 3
  /\ url[1] = TRACKING_BASE_URL /\ url[2] = "/"
  /\ url[3] \in {"trackClickFunction", "unsubscribe"}

\* C32: rewriting the links of a rewritten document changes nothing, and
\* rewriting a document replaces every URL that does not point at the
\* tracking or unsubscribe endpoint by a tracking URL.  Violated: a URL is
\* kept whenever it includes 'track' or 'unsubscribe' anywhere, so a link
\* to a page such as a/track/x is never tracked.
C32_RewritingIdempotentAndComplete ==
  /\ cmp.pc = "recomposed" => cmp.twice = cmp.once
  /\ cmp.pc # "idle" =>
       \A i \in 1..Len(cmp.html) :
         IF PointsAtEndpoint(cmp.html[i])
           THEN cmp.once[i] = cmp.html[i]
           ELSE cmp.once[i] = trackingUrl(cmp.html[i], cmp.nid, cmp.rid)

\* C33: a scheduler run made while the relay configuration is invalid moves
\* no newsletter to Sending or Sent.  Violated: the run never verifies the
\* configuration; it writes Sending, every sendMail fails, and it writes
\* Sent with stats.sent = 0.
C33_InvalidRelayNeverSends ==
  [][\A s \in SIds :
       (sch[s].pc # "idle" /\ ~sch[s].configValid) =>
         \A n \in DOMAIN newsletters :
           newsletters'[n].status \in {Sending, Sent}
             => newsletters'[n].status = newsletters[n].status]_vars

\* the newsletter record differs from doc in the two counters of kind at most
OnlyCountersOf(kind, doc, after) ==
  IF kind = "open"
    THEN after = [doc EXCEPT !.stats.opened = after.stats.opened,
                             !.stats.uniqueOpened = after.stats.uniqueOpened]
    ELSE after = [doc EXCEPT !.stats.clicked = after.stats.clicked,
                             !.stats.uniqueClicked = after.stats.uniqueClicked]

\* C34: a step of a tracking request that changes a newsletter record is the
\* stats update of a request for that newsletter, and it changes nothing but
\* stats.opened and stats.uniqueOpened (an open) or stats.clicked and
\* stats.uniqueClicked (a click): status, scheduledAt, sentAt, subject,
\* htmlContent, recipientGroupIds, stats.sent and stats.bounced stay.
C34_TrackingTouchesOwnCounters ==
  [][\A n \in DOMAIN newsletters :
       newsletters'[n] # newsletters[n] =>
         \E h \in HIds :
           /\ trk[h].pc = "update" /\ trk'[h].pc = "done" /\ trk[h].nid = n
           /\ OnlyCountersOf(trk[h].kind, newsletters[n], newsletters'[n])]_vars

\* an open and a click have been counted on a sent newsletter
C34_Witness ==
  \E h \in HIds :
    /\ trk[h].pc = "done" /\ ~trk[h].threw /\ trk[h].kind = "click"
    /\ trk[h].nid \in DOMAIN newsletters
    /\ LET doc == newsletters[trk[h].nid]
       IN /\ doc.stats.clicked > 0 /\ doc.stats.opened > 0
          /\ doc.status = Sent /\ doc.stats.sent > 0

\* C35: the write of Sent with the final stats loses no open or click that
\* was counted while the send was in progress.  Violated: the final write
\* replaces the stats object by {sent, opened: 0, clicked: 0, bounced}.
C35_FinalWriteKeepsTrackingCounters ==
  [][\A n \in DOMAIN newsletters :
       (newsletters[n].status = Sending /\ newsletters'[n].status = Sent) =>
         /\ newsletters'[n].stats.opened >= newsletters[n].stats.opened
         /\ newsletters'[n].stats.clicked >= newsletters[n].stats.clicked]_vars

\* C38: in every state every newsletter has stats.uniqueOpened <=
\* stats.opened and stats.uniqueClicked <= stats.clicked, whatever the
\* order of the steps of tracking requests, sends, scheduler runs and editor
\* saves.
C38_UniqueAtMostTotal ==
  \A n \in DOMAIN newsletters :
    /\ newsletters[n].stats.uniqueOpened <= newsletters[n].stats.opened
    /\ newsletters[n].stats.uniqueClicked <= newsletters[n].stats.clicked

\* an editor save, a send and a tracking request have all written the
\* newsletter: a request was counted as unique after the send was completed
C38_Witness ==
  \E n \in DOMAIN newsletters, e \in EIds :
    /\ newsletters[n].stats.uniqueOpened + newsletters[n].stats.uniqueClicked > 0
    /\ newsletters[n].status = Sent /\ newsletters[n].subject = "s1"
    /\ ed[e].saves > 0
    /\ \E h \in HIds : trk[h].pc = "done" /\ trk[h].isUnique /\ ~trk[h].threw

\* C36: a send that writes the rollback status has delivered nothing: the
\* manual send writes Draft in its catch block, and the scheduler run
\* Scheduled, only when no email of this send was accepted by the relay.
\* Violated: the write of Sent is inside the try block, so when it throws
\* after the dispatch the newsletter is rolled back and can be sent again.
C36_RollbackOnlyBeforeDelivery ==
  [][/\ \A m \in MIds :
          (man[m].pc = "catch" /\ man'[m].rolledBack) => man[m].ok = 0
     /\ \A s \in SIds :
          (sch[s].pc = "catch"
             /\ sch'[s].outcomes = Append(sch[s].outcomes, "rolledBack"))
            => sch[s].ok = 0]_vars

\* an invocation that has written Sending to newsletter n is in progress
SendInProgress(n) ==
  \/ \E m \in MIds : /\ man[m].nid = n /\ man[m].wroteSending
                      /\ man[m].pc \notin {"idle", "done"}
  \/ \E s \in SIds : /\ sch[s].pc \in {"dispatch", "final", "catch"}
                      /\ sch[s].wroteSending /\ Item(s) = n

\* C37 as stated: a newsletter whose status is Sending has a send in
\* progress that wrote it.  Violated: when the rollback write throws as
\* well, the invocation ends and the newsletter stays in Sending.
C37_SendingHasSendInProgress ==
  \A n \in DOMAIN newsletters :
    newsletters[n].status = Sending => SendInProgress(n)

\* C37: an invocation that wrote Sending ends with a write of Sent or of its
\* rollback status (Draft on the manual path, Scheduled on the scheduler
\* path), also when its write of Sent throws; it ends without that write
\* only when its rollback write throws, and then it leaves the newsletter
\* record as it is.
C37_EndsWithSentOrRollback ==
  [][/\ \A m \in MIds :
          (man[m].wroteSending /\ man[m].pc # "done" /\ man'[m].pc = "done") =>
            \/ /\ man[m].pc = "final"
               /\ newsletters'[man[m].nid].status = Sent
            \/ /\ man[m].pc = "catch" /\ man'[m].rolledBack
               /\ newsletters'[man[m].nid].status = Draft
            \/ /\ man[m].pc = "catch" /\ ~man'[m].rolledBack
               /\ newsletters' = newsletters
     /\ \A s \in SIds :
          (sch[s].wroteSending /\ Len(sch'[s].outcomes) > Len(sch[s].outcomes)) =>
            LET outcome == sch'[s].outcomes[Len(sch'[s].outcomes)]
            IN \/ outcome = "sent" /\ newsletters'[Item(s)].status = Sent
               \/ outcome = "rolledBack" /\ newsletters'[Item(s)].status = Scheduled
               \/ outcome = "rollbackThrew" /\ newsletters' = newsletters]_vars

\* the write of Sent and the rollback write of a manual send have both
\* thrown: the send has ended and the newsletter is in Sending
C37_Witness ==
  \E m \in MIds :
    /\ man[m].pc = "done" /\ man[m].wroteSending /\ ~man[m].rolledBack
    /\ man[m].err = "Internal" /\ man[m].ok > 0
    /\ newsletters[man[m].nid].status = Sending
    /\ \A s \in SIds : sch[s].pc = "idle"

\* C39: between tracking requests that do not overlap, stats.uniqueOpened is
\* the number of recipients with an open event stored for the newsletter.
\* Violated: the event is stored by one store call and counted by another,
\* and when the second throws the event stays without its increment.
C39_UniqueExactBetweenRequests ==
  \A n \in DOMAIN newsletters :
    NoRequestInProgress =>
      newsletters[n].stats.uniqueOpened =
        Cardinality({r \in RIds : tracking[<<n, r, "open">>] > 0})

\* C40: the summary of a scheduler run that found newsletters and went
\* through all of them reports found = sent + errors.  Violated: a
\* newsletter with no recipients is passed over with continue and is
\* counted neither as sent nor as an error.
C40_FoundIsSentPlusErrors ==
  \A s \in SIds :
    (/\ sch[s].pc = "done" /\ Len(sch[s].due) > 0
     /\ \A k \in 1..Len(sch[s].outcomes) : sch[s].outcomes[k] # "rollbackThrew") =>
      sch[s].summary[1].newslettersFound =
        sch[s].summary[1].newslettersSent + sch[s].summary[1].errors

====
